---- MODULE Spec2Model ----
(***************************************************************************)
(* Model of StatisticsEngine (core/processors/statistics.py): the          *)
(* automatic comparison procedure auto_compare, the normality classifier   *)
(* test_normality and the tests auto_compare dispatches to.                *)
(*                                                                         *)
(* Floats are fixed-point naturals (p-values and alpha in permille) and    *)
(* NaN is the integer -1; every float comparison goes through FloatLt /    *)
(* FloatGt, which are false when an operand is NaN, as in IEEE 754.         *)
(* The numeric results of the scipy / statsmodels routines (p-values) are  *)
(* inputs of the model: each call draws its p-value from PValues, except   *)
(* where the sample sizes alone force NaN or an exception.                 *)
(* Python's None / Optional is a sequence of length 0 or 1.                *)
(***************************************************************************)
EXTENDS Integers, Sequences, FiniteSets, TLC

\* ------------------------------------------------------------------ bounds
\* most non-missing values a group holds in an input table
MaxValid == 3
\* most rows with a missing value a group holds in an input table
MaxMissing == 1

\* most rows of an input table whose groups are interleaved
MaxRows == 4

\* largest p-value handed to get_significance_stars, in ten-thousandths
MaxStarsP == 1000

\* most rows of the wide table handed to compare_multiple_parameters
MaxBatchRows == 3

\* most measurement rows and most requested parameters of a stats command
MaxCliRows == 2
MaxCliParams == 2

\* ------------------------------------------------------------ value domain
NaN == -1
None == << >>
Some(x) == << x >>
IsNone(o) == Len(o) = 0
IsSome(o) == Len(o) = 1
Get(o) == o[1]

\* a < b and a > b on floats (false when either side is NaN)
FloatLt(a, b) == a # NaN /\ b # NaN /\ a < b
FloatGt(a, b) == a # NaN /\ b # NaN /\ a > b

\* group labels of the input tables, in lexicographic order
LabelOrder == << "A", "B", "C" >>
Labels == { LabelOrder[i] : i \in 1..Len(LabelOrder) }
Rank(l) == CHOOSE i \in 1..Len(LabelOrder) : LabelOrder[i] = l

\* engine significance level (permille): the default of StatisticsEngine.__init__
DefaultAlpha == 50
Alphas == { DefaultAlpha }
\* an engine constructed as StatisticsEngine(alpha=0.01)
StrictAlpha == 10
\* the p-values a library call returns: below, at and above the significance level
PValues == { 10, 50, 900 }
\* the statistic a library call returns when it is defined (its value is not modelled)
StatDefined == 0

\* names accepted or rejected by test_normality
NormalityTestNames == { "shapiro", "kstest", "anderson" }

\* ------------------------------------------------------------ pandas helpers
RECURSIVE SeqSum(_)
SeqSum(s) == IF s = << >> THEN 0 ELSE Head(s) + SeqSum(Tail(s))

RECURSIVE Concat(_)
Concat(ss) == IF ss = << >> THEN << >> ELSE Head(ss) \o Concat(Tail(ss))

SeqContains(s, x) == \E i \in 1..Len(s) : s[i] = x

\* Unique giving the distinct entries in sorted order, as numpy.unique does
Unique_sorted(s) ==
    LET S == { s[i] : i \in 1..Len(s) }
    IN [ i \in 1..Cardinality(S) |->
           CHOOSE x \in S : Cardinality({ y \in S : Rank(y) < Rank(x) }) = i - 1 ]

\* Series.unique(): the distinct entries in order of first occurrence
RECURSIVE Unique(_)
Unique(s) ==
    IF s = << >> THEN << >>
    ELSE LET front == Unique(SubSeq(s, 1, Len(s) - 1))
             last == s[Len(s)]
         IN IF SeqContains(front, last) THEN front ELSE Append(front, last)

\* Series.dropna()
dropna(s) == SelectSeq(s, LAMBDA v : v # NaN)

\* data[group_col]
GroupColumn(table) == [ i \in 1..Len(table) |-> table[i].group ]

\* data[data[group_col] == g][value_col]
GroupValues(table, g) ==
    LET rows == SelectSeq(table, LAMBDA r : r.group = g)
    IN [ i \in 1..Len(rows) |-> rows[i].value ]

SeqMin(s) == IF s = << >> THEN NaN
             ELSE CHOOSE m \in { s[i] : i \in 1..Len(s) } : \A i \in 1..Len(s) : m <= s[i]
SeqMax(s) == IF s = << >> THEN NaN
             ELSE CHOOSE m \in { s[i] : i \in 1..Len(s) } : \A i \in 1..Len(s) : m >= s[i]
\* Series.mean(), in thousandths
SeqMean(s) == IF s = << >> THEN NaN ELSE (1000 * SeqSum(s)) \div Len(s)
\* Series.median(), in thousandths; the samples of the input tables are ascending
SeqMedian(s) ==
    IF s = << >> THEN NaN
    ELSE IF Len(s) % 2 = 1 THEN 1000 * s[(Len(s) + 1) \div 2]
    ELSE 500 * (s[Len(s) \div 2] + s[Len(s) \div 2 + 1])
\* Series.std() (ddof = 1) squared, in thousandths: NaN below two values
SeqVar(s) ==
    IF Len(s) < 2 THEN NaN
    ELSE LET n == Len(s)
             sq == [ i \in 1..n |-> (n * s[i] - SeqSum(s)) * (n * s[i] - SeqSum(s)) ]
         IN (1000 * SeqSum(sq)) \div (n * n * (n - 1))

\* ------------------------------------------------------------- input tables
\* one group's rows: v distinct values 1..v followed by m rows with a missing value
Block(g, v, m) == [ i \in 1..(v + m) |-> [ group |-> g, value |-> IF i <= v THEN i ELSE NaN ] ]

\* the orders in which the labels first appear in an input table: any choice of
\* labels, in lexicographic order or in the reverse of it
GroupOrders ==
    { o \in UNION { [ 1..k -> Labels ] : k \in 0..Len(LabelOrder) } :
        \/ \A i, j \in 1..Len(o) : i < j => Rank(o[i]) < Rank(o[j])
        \/ \A i, j \in 1..Len(o) : i < j => Rank(o[i]) > Rank(o[j]) }

BlockSizes == { vm \in (0..MaxValid) \X (0..MaxMissing) : vm[1] + vm[2] >= 1 }

TablesOf(o) ==
    { Concat([ i \in 1..Len(o) |-> Block(o[i], sz[i][1], sz[i][2]) ]) :
        sz \in [ 1..Len(o) -> BlockSizes ] }

Tables == UNION { TablesOf(o) : o \in GroupOrders }

\* tables whose groups are interleaved: row i holds any label and the value i or a
\* missing value
RowTables ==
    UNION { { [ i \in 1..k |-> [ group |-> gs[i], value |-> IF ok[i] THEN i ELSE NaN ] ] :
                gs \in [ 1..k -> Labels ], ok \in [ 1..k -> BOOLEAN ] } : k \in 0..MaxRows }

\* ------------------------------------------------ library routines (scipy)
\* an exception raised inside a library routine, in place of a p-value
Raises == -2

\* stats.shapiro / stats.kstest on a sample of at least 3 values
normality_outcomes == PValues

\* stats.ttest_ind: NaN when a sample is empty, when there are no degrees of
\* freedom, and for Welch's test on a single value; the pooled test on a single
\* value is NaN or defined, depending on the scipy release
ttest_ind_outcomes(n1, n2, equal_var) ==
    IF n1 = 0 \/ n2 = 0 \/ n1 + n2 - 2 = 0 THEN { NaN }
    ELSE IF n1 = 1 \/ n2 = 1 THEN (IF equal_var THEN PValues \cup { NaN } ELSE { NaN })
    ELSE PValues

\* stats.mannwhitneyu: an empty sample raises ValueError or gives NaN, depending
\* on the scipy release
mannwhitneyu_outcomes(n1, n2) ==
    IF n1 = 0 \/ n2 = 0 THEN { NaN, Raises } ELSE PValues

\* stats.f_oneway: NaN when a group is empty or no degrees of freedom remain
f_oneway_outcomes(ns) ==
    IF (\E i \in 1..Len(ns) : ns[i] = 0) \/ SeqSum(ns) - Len(ns) = 0 THEN { NaN }
    ELSE PValues

\* stats.kruskal: NaN when a group is empty
kruskal_outcomes(ns) ==
    IF \E i \in 1..Len(ns) : ns[i] = 0 THEN { NaN } ELSE PValues

StatOf(p) == IF p = NaN THEN NaN ELSE StatDefined

\* -------------------------------------------------------- StatisticsEngine
Ok(v) == [ error |-> "none", value |-> Some(v) ]
Raise(e) == [ error |-> e, value |-> None ]

NormalityTest(name, stat, p, normal, a) ==
    [ test_name |-> name, statistic |-> stat, p_value |-> p, is_normal |-> normal, alpha |-> a ]

\* StatisticalTest deciding significance at the literal 0.05 instead of self.alpha
StatisticalTest_literal(name, p, a, ns) ==
    [ test_name |-> name, statistic |-> StatOf(p), p_value |-> p,
      significant |-> FloatLt(p, DefaultAlpha), alpha |-> a, group_ns |-> ns ]

StatisticalTest(name, p, a, ns) ==
    [ test_name |-> name, statistic |-> StatOf(p), p_value |-> p,
      significant |-> FloatLt(p, a), alpha |-> a, group_ns |-> ns ]

PostHocTest(g1, g2, p, sig) ==
    [ group1 |-> g1, group2 |-> g2, p_value |-> p, significant |-> sig ]

\* test_normality with the test name checked before the sample size
test_normality_name_first(sample, test, a, p) ==
    LET data_clean == dropna(sample)
    IN IF test \notin { "shapiro", "kstest" }
       THEN Raise("ValueError: Unknown normality test")
       ELSE IF Len(data_clean) < 3
       THEN Ok(NormalityTest(test, NaN, NaN, FALSE, a))
       ELSE Ok(NormalityTest(IF test = "shapiro" THEN "Shapiro-Wilk" ELSE "Kolmogorov-Smirnov",
                             StatOf(p), p, FloatGt(p, a), a))

\* test_normality(data, test); p is what the library routine returns when called
test_normality(sample, test, a, p) ==
    LET data_clean == dropna(sample)
    IN IF Len(data_clean) < 3
       THEN Ok(NormalityTest(test, NaN, NaN, FALSE, a))
       ELSE IF test = "shapiro"
            THEN Ok(NormalityTest("Shapiro-Wilk", StatOf(p), p, FloatGt(p, a), a))
       ELSE IF test = "kstest"
            THEN Ok(NormalityTest("Kolmogorov-Smirnov", StatOf(p), p, FloatGt(p, a), a))
       ELSE Raise("ValueError: Unknown normality test")

\* does test_normality reach the library routine
NormalityRuns(sample, test) == Len(dropna(sample)) >= 3 /\ test \in { "shapiro", "kstest" }

independent_t_test(group1, group2, equal_var, a, p) ==
    StatisticalTest(IF equal_var THEN "Independent t-test" ELSE "Welch's t-test",
                    p, a, << Len(dropna(group1)), Len(dropna(group2)) >>)

mann_whitney_test(group1, group2, a, p) ==
    StatisticalTest("Mann-Whitney U test", p, a,
                    << Len(dropna(group1)), Len(dropna(group2)) >>)

CleanSizes(samples) == [ i \in 1..Len(samples) |-> Len(dropna(samples[i])) ]

one_way_anova(samples, a, p) ==
    StatisticalTest("One-way ANOVA", p, a, CleanSizes(samples))

kruskal_wallis(samples, a, p) ==
    StatisticalTest("Kruskal-Wallis H test", p, a, CleanSizes(samples))

\* the groups pairwise_tukeyhsd sees: the labels of the rows left by dropna, sorted
RECURSIVE SortLabels(_)
SortLabels(S) ==
    IF S = {} THEN << >>
    ELSE LET m == CHOOSE x \in S : \A y \in S : Rank(x) <= Rank(y)
         IN << m >> \o SortLabels(S \ { m })

TukeyGroups(table) ==
    SortLabels({ table[i].group : i \in { j \in 1..Len(table) : table[j].value # NaN } })

\* the rows of the Tukey summary: every pair i < j of the sorted groups, row-major
RECURSIVE TukeyPairsFrom(_, _, _)
TukeyPairsFrom(gs, i, j) ==
    IF i >= Len(gs) THEN << >>
    ELSE IF j > Len(gs) THEN TukeyPairsFrom(gs, i + 1, i + 2)
    ELSE << << gs[i], gs[j] >> >> \o TukeyPairsFrom(gs, i, j + 1)

TukeyPairs(gs) == TukeyPairsFrom(gs, 1, 2)

\* tukey_result.summary().data: a header row, then one row per pair; ps[i] is the
\* p-value of pair i
TukeySummary(table, ps) ==
    LET pairs == TukeyPairs(TukeyGroups(table))
    IN << << "group1", "group2", NaN >> >> \o
       [ i \in 1..Len(pairs) |-> << pairs[i][1], pairs[i][2], ps[i] >> ]

\* tukey_hsd with the slice of line 283 off by one: summary.data[2:]
tukey_hsd_skips_two(table, a, ps) ==
    LET data_rows == Tail(Tail(TukeySummary(table, ps)))
    IN [ i \in 1..Len(data_rows) |->
           PostHocTest(data_rows[i][1], data_rows[i][2], data_rows[i][3],
                       FloatLt(data_rows[i][3], a)) ]

\* tukey_hsd(data, value_col, group_col), lines 268-303; the reject flag of a row
\* is the library's decision at alpha
tukey_hsd(table, a, ps) ==
    LET data_rows == Tail(TukeySummary(table, ps))
    IN [ i \in 1..Len(data_rows) |->
           PostHocTest(data_rows[i][1], data_rows[i][2], data_rows[i][3],
                       FloatLt(data_rows[i][3], a)) ]

\* all_normal with the loop of lines 398-404 inverted: one normal group suffices
all_normal_any(verdicts) == \E g \in DOMAIN verdicts : verdicts[g].is_normal

\* is_parametric when no branch is forced: lines 396-406
all_normal(verdicts) == \A g \in DOMAIN verdicts : verdicts[g].is_normal

\* SelectTest with the branches of lines 418-422 and 429-438 exchanged
SelectTest_swapped(num_groups, is_parametric) ==
    IF num_groups = 2
    THEN (IF is_parametric THEN "Mann-Whitney U test" ELSE "Independent t-test")
    ELSE (IF is_parametric THEN "Kruskal-Wallis H test" ELSE "One-way ANOVA")

\* the test auto_compare dispatches to: lines 413-439
SelectTest(num_groups, is_parametric) ==
    IF num_groups = 2
    THEN (IF is_parametric THEN "Independent t-test" ELSE "Mann-Whitney U test")
    ELSE (IF is_parametric THEN "One-way ANOVA" ELSE "Kruskal-Wallis H test")

\* PostHocTriggered without the significance check of line 434
PostHocTriggered_always(is_parametric, num_groups, main_test) ==
    num_groups # 2 /\ is_parametric

\* the post-hoc stage runs: lines 429-436
PostHocTriggered(is_parametric, num_groups, main_test) ==
    num_groups # 2 /\ is_parametric /\ main_test.significant

\* AfterDescribe without the check of line 394: normality is always tested
AfterDescribe_always(arg) == "normality"

\* where auto_compare goes after the descriptive statistics: line 394
AfterDescribe(arg) == IF IsNone(arg) THEN "normality" ELSE "select"

\* AfterMain re-entering the selection when no post-hoc test is due
AfterMain_reselect(triggered) == IF triggered THEN "execute_posthoc" ELSE "select"

\* where auto_compare goes after the main test: lines 434-441
AfterMain(triggered) == IF triggered THEN "execute_posthoc" ELSE "aggregate"

\* the result dictionary of lines 370-379
NewResult(gs) ==
    [ num_groups |-> Len(gs), group_names |-> gs, normality_tests |-> << >>,
      main_test |-> None, post_hoc_tests |-> None, descriptive_stats |-> << >>,
      parametric |-> None ]

\* one entry of result['descriptive_stats']: lines 383-391
Describe(sample) ==
    LET group_data == dropna(sample)
    IN [ n |-> Len(group_data), mean |-> SeqMean(group_data), var |-> SeqVar(group_data),
         median |-> SeqMedian(group_data), min |-> SeqMin(group_data),
         max |-> SeqMax(group_data) ]

\* DescribeAll leaving out the groups that have no valid value
DescribeAll_nonempty(table, gs) ==
    LET kept == SelectSeq(gs, LAMBDA g : Len(dropna(GroupValues(table, g))) > 0)
    IN [ i \in 1..Len(kept) |->
           [ key |-> kept[i], value |-> Describe(GroupValues(table, kept[i])) ] ]

\* result['descriptive_stats'] after the loop of lines 382-391: a dict, which keeps
\* its keys in insertion order
DescribeAll(table, gs) ==
    [ i \in 1..Len(gs) |-> [ key |-> gs[i], value |-> Describe(GroupValues(table, gs[i])) ] ]

\* ------------------------------------------------------------------- state
VARIABLES
    alpha,        \* self.alpha
    data,         \* the DataFrame passed to the call: rows of (group, value)
    arg,          \* the parametric argument of auto_compare: None, True or False
    test_arg,     \* the test argument of a direct test_normality call
    verdict,      \* what a direct test_normality call returned, None otherwise
    pc,           \* where the call stands
    groups,       \* local: data[group_col].unique()
    parametric,   \* local: the parametric variable, reassigned at line 406
    result,       \* local: the result dictionary, None before line 370
    returned,     \* what the call returned, None while running or after an exception
    error,        \* the exception that left the call, "none" otherwise
    trace,        \* the stages entered so far, in order
    calls         \* the tests executed so far, in order

\* the state of one auto_compare or test_normality call on the engine
engine_vars == << alpha, data, arg, test_arg, verdict, pc, groups, parametric, result, returned, error, trace, calls >>

VARIABLES
    threads,          \* concurrent auto_compare calls on one engine: the locals of each
    library,          \* what the library routines answered to those calls so far
    alone,            \* for each parametric argument, how a call alone on the table can end
    batch_data,       \* compare_multiple_parameters: the wide DataFrame
    batch_parametric, \* compare_multiple_parameters: its parametric argument
    param_i,          \* compare_multiple_parameters: index of the next parameter column
    all_results,      \* compare_multiple_parameters: the all_results dictionary
    batch_pc,         \* compare_multiple_parameters: where the call stands
    printed,          \* compare_multiple_parameters: the per-parameter lines it printed
    df,               \* cmd_stats: db.get_measurements(args.assay)
    parameters,       \* cmd_stats: the parameter names looped over
    cli_i,            \* cmd_stats: index of the next parameter
    cli_pc,           \* cmd_stats / main: where the command stands
    exit_code,        \* main: its return value, None while running
    cli_out,          \* cmd_stats: what was printed for each parameter
    stars_p,          \* get_significance_stars: the p_value argument
    stars             \* get_significance_stars: the returned string, None before the call

VARIABLES
    anova_groups,     \* one_way_anova: the samples passed as *groups
    anova_info,       \* one_way_anova: ss_between, ss_total and eta_squared, None before the call
    kw_call,          \* a direct call with an equal_var keyword: the method called
    kw_data,          \* that call: the two-group DataFrame
    kw_equal_var,     \* that call: the equal_var keyword, None when the caller leaves it out
    kw_returned,      \* that call: what it returned, None before or after an exception
    kw_error,         \* that call: the exception that left it, "none" otherwise
    profiles_dir,     \* ProfileManager: the *.json files of self.profiles_dir, by file stem
    pm_clock,         \* ProfileManager: datetime.now() as a counter
    pm_call,          \* ProfileManager: the last call and its arguments, None before any
    pm_ret,           \* ProfileManager: what the last call returned or raised
    pm_before,        \* ProfileManager: the files as they were before the last call
    current_profile,  \* ProfileManager: self.current_profile
    pm_saved,         \* ProfileManager: the profile last saved under each name and not deleted since
    measurements,     \* SQLiteDatabase: the rows of the measurements table
    db_call,          \* SQLiteDatabase: the last insert_measurements call, None before any
    db_ret,           \* SQLiteDatabase: what that call returned
    db_before,        \* SQLiteDatabase: the rows as they were before the last call
    db_returned,      \* SQLiteDatabase: the assay and the returned count of every insert so far
    ex_alpha,         \* exporters: the alpha of the engine handed to the exporter
    ex_data,          \* exporters: the long table of (condition, value) being exported
    ex_result,        \* exporters: the report auto_compare returned to the exporter
    ex_sheet,         \* ExcelExporter: the cells of the statistics sheet, None before it is written
    ex_pairwise,      \* StatisticsTableExporter: the pairwise table, None before it is built
    ex_pc             \* exporters: where the export stands

thread_vars == << threads, library, alone >>
batch_vars == << batch_data, batch_parametric, param_i, all_results, batch_pc, printed >>
cli_vars == << df, parameters, cli_i, cli_pc, exit_code, cli_out >>
stars_vars == << stars_p, stars >>
anova_vars == << anova_groups, anova_info >>
kw_vars == << kw_call, kw_data, kw_equal_var, kw_returned, kw_error >>
profile_vars == << profiles_dir, pm_clock, pm_call, pm_ret, pm_before, current_profile, pm_saved >>
db_vars == << measurements, db_call, db_ret, db_before, db_returned >>
export_vars == << ex_alpha, ex_data, ex_result, ex_sheet, ex_pairwise, ex_pc >>
\* the parts of the program that are not callers of auto_compare's stages
module_vars == << anova_vars, kw_vars, profile_vars, db_vars, export_vars >>
\* the callers and helpers around a single engine call
caller_vars == << thread_vars, batch_vars, cli_vars, stars_vars, module_vars >>

vars == << engine_vars, caller_vars >>

\* no concurrent calls, no batch, no command, no star lookup in progress
ThreadsIdle == threads = << >> /\ library = << >> /\ alone = << >>
BatchIdle ==
    /\ batch_data = << >> /\ batch_parametric = None /\ param_i = 0
    /\ all_results = << >> /\ batch_pc = "idle" /\ printed = << >>
CliIdle ==
    /\ df = << >> /\ parameters = << >> /\ cli_i = 0
    /\ cli_pc = "idle" /\ exit_code = None /\ cli_out = << >>
StarsIdle == stars_p = NaN /\ stars = None
AnovaIdle == anova_groups = << >> /\ anova_info = None
KwIdle ==
    /\ kw_call = "none" /\ kw_data = << >> /\ kw_equal_var = None
    /\ kw_returned = None /\ kw_error = "none"
ProfilesIdle ==
    /\ profiles_dir = << >> /\ pm_clock = 0 /\ pm_call = None /\ pm_ret = None
    /\ pm_before = << >> /\ current_profile = None /\ pm_saved = << >>
DbIdle ==
    /\ measurements = << >> /\ db_call = None /\ db_ret = None
    /\ db_before = << >> /\ db_returned = << >>
ExportIdle ==
    /\ ex_alpha = DefaultAlpha /\ ex_data = << >> /\ ex_result = None
    /\ ex_sheet = None /\ ex_pairwise = None /\ ex_pc = "idle"
ModulesIdle == AnovaIdle /\ KwIdle /\ ProfilesIdle /\ DbIdle /\ ExportIdle
\* no engine call in progress
EngineIdle ==
    /\ alpha = DefaultAlpha /\ data = << >> /\ arg = None /\ test_arg = "shapiro"
    /\ verdict = None /\ pc = "idle" /\ groups = << >> /\ parametric = None
    /\ result = None /\ returned = None /\ error = "none"
    /\ trace = << >> /\ calls = << >>

Init ==
    /\ alpha \in Alphas
    /\ data \in Tables
    /\ arg = None
    /\ test_arg = "shapiro"
    /\ verdict = None
    /\ pc = "start"
    /\ groups = << >>
    /\ parametric = None
    /\ result = None
    /\ returned = None
    /\ error = "none"
    /\ trace = << >>
    /\ calls = << >>
    /\ ThreadsIdle /\ BatchIdle /\ CliIdle /\ StarsIdle /\ ModulesIdle

SamplesOf(gs) == [ i \in 1..Len(gs) |-> GroupValues(data, gs[i]) ]

\* auto_compare, lines 363-379: the groups, the group-count check, the result dictionary
Validate ==
    /\ pc = "start"
    /\ \E forced \in { None, Some(TRUE), Some(FALSE) } :
         /\ arg' = forced
         /\ parametric' = forced
    /\ LET gs == Unique(GroupColumn(data))
       IN /\ groups' = gs
          /\ IF Len(gs) < 2
             THEN /\ pc' = "raised"
                  /\ error' = "ValueError: Need at least 2 groups for comparison"
                  /\ result' = result
             ELSE /\ pc' = "describe"
                  /\ error' = error
                  /\ result' = Some(NewResult(gs))
    /\ UNCHANGED << caller_vars, alpha, data, test_arg, verdict, returned, trace, calls >>

\* auto_compare, lines 381-391: descriptive statistics of every group
DescribeStage ==
    /\ pc = "describe"
    /\ result' = Some([ Get(result) EXCEPT !.descriptive_stats = DescribeAll(data, groups) ])
    /\ trace' = Append(trace, "DESCRIBE")
    /\ pc' = AfterDescribe(parametric)
    /\ UNCHANGED << caller_vars, alpha, data, arg, test_arg, verdict, groups, parametric, returned, error, calls >>

\* auto_compare, lines 394-408: one normality test per group
NormalityStage ==
    /\ pc = "normality"
    /\ \E ps \in [ 1..Len(groups) -> normality_outcomes ] :
         LET idx(g) == CHOOSE i \in 1..Len(groups) : groups[i] = g
             verdicts == [ g \in { groups[i] : i \in 1..Len(groups) } |->
                             Get(test_normality(GroupValues(data, g), "shapiro", alpha,
                                                ps[idx(g)]).value) ]
         IN /\ result' = Some([ Get(result) EXCEPT !.normality_tests = verdicts ])
            /\ parametric' = Some(all_normal(verdicts))
    /\ calls' = calls \o [ i \in 1..Len(groups) |-> "test_normality" ]
    /\ trace' = Append(trace, "NORMALITY")
    /\ pc' = "select"
    /\ UNCHANGED << caller_vars, alpha, data, arg, test_arg, verdict, groups, returned, error >>

\* auto_compare, line 410
SelectStage ==
    /\ pc = "select"
    /\ result' = Some([ Get(result) EXCEPT !.parametric = parametric ])
    /\ trace' = Append(trace, "SELECT")
    /\ pc' = "execute_main"
    /\ UNCHANGED << caller_vars, alpha, data, arg, test_arg, verdict, groups, parametric, returned, error, calls >>

\* the p-values the library can hand to the selected test
MainOutcomes(test, ns) ==
    IF test = "Independent t-test" THEN ttest_ind_outcomes(ns[1], ns[2], TRUE)
    ELSE IF test = "Mann-Whitney U test" THEN mannwhitneyu_outcomes(ns[1], ns[2])
    ELSE IF test = "One-way ANOVA" THEN f_oneway_outcomes(ns)
    ELSE kruskal_outcomes(ns)

RunMain(test, samples, a, p) ==
    IF test = "Independent t-test" THEN independent_t_test(samples[1], samples[2], TRUE, a, p)
    ELSE IF test = "Mann-Whitney U test" THEN mann_whitney_test(samples[1], samples[2], a, p)
    ELSE IF test = "One-way ANOVA" THEN one_way_anova(samples, a, p)
    ELSE kruskal_wallis(samples, a, p)

\* auto_compare, lines 412-439 without the Tukey call: the main test
ExecuteMain ==
    /\ pc = "execute_main"
    /\ LET test == SelectTest(Len(groups), Get(parametric))
           samples == SamplesOf(groups)
       IN /\ calls' = Append(calls, test)
          /\ \E p \in MainOutcomes(test, CleanSizes(samples)) :
               IF p = Raises
               THEN /\ pc' = "raised"
                    /\ error' = "ValueError: raised by the library"
                    /\ result' = result
               ELSE LET main == RunMain(test, samples, alpha, p)
                    IN /\ result' = Some([ Get(result) EXCEPT !.main_test = Some(main) ])
                       /\ pc' = AfterMain(PostHocTriggered(Get(parametric), Len(groups), main))
                       /\ error' = error
    /\ trace' = Append(trace, "EXECUTE_MAIN")
    /\ UNCHANGED << caller_vars, alpha, data, arg, test_arg, verdict, groups, parametric, returned >>

\* ExecutePostHoc with the ImportError of line 266 caught: the call goes on to return
ExecutePostHoc_swallow ==
    /\ pc = "execute_posthoc"
    /\ \E installed \in BOOLEAN :
         IF ~installed
         THEN /\ pc' = "aggregate"
              /\ error' = error
              /\ result' = result
         ELSE \E ps \in [ 1..Len(TukeyPairs(TukeyGroups(data))) -> PValues ] :
                /\ result' = Some([ Get(result) EXCEPT
                                      !.post_hoc_tests = Some(tukey_hsd(data, alpha, ps)) ])
                /\ pc' = "aggregate"
                /\ error' = error
    /\ calls' = Append(calls, "Tukey HSD")
    /\ trace' = Append(trace, "EXECUTE_POSTHOC")
    /\ UNCHANGED << caller_vars, alpha, data, arg, test_arg, verdict, groups, parametric, returned >>

\* ExecutePostHoc with a fallback for the ImportError of line 266: one uncorrected
\* Mann-Whitney test per pair of groups
ExecutePostHoc_fallback ==
    /\ pc = "execute_posthoc"
    /\ \E installed \in BOOLEAN :
         \E ps \in [ 1..Len(TukeyPairs(TukeyGroups(data))) -> PValues ] :
           /\ result' = Some([ Get(result) EXCEPT
                                 !.post_hoc_tests = Some(tukey_hsd(data, alpha, ps)) ])
           /\ pc' = "aggregate"
           /\ error' = error
           /\ calls' = IF installed THEN Append(calls, "Tukey HSD")
                       ELSE calls \o [ i \in 1..Len(ps) |-> "Mann-Whitney U test" ]
    /\ trace' = Append(trace, "EXECUTE_POSTHOC")
    /\ UNCHANGED << caller_vars, alpha, data, arg, test_arg, verdict, groups, parametric, returned >>

\* auto_compare, lines 434-436: Tukey HSD after a significant ANOVA
ExecutePostHoc ==
    /\ pc = "execute_posthoc"
    /\ \E installed \in BOOLEAN :
         IF ~installed
         THEN /\ pc' = "raised"
              /\ error' = "ImportError: statsmodels required for Tukey HSD"
              /\ result' = result
         ELSE \E ps \in [ 1..Len(TukeyPairs(TukeyGroups(data))) -> PValues ] :
                /\ result' = Some([ Get(result) EXCEPT
                                      !.post_hoc_tests = Some(tukey_hsd(data, alpha, ps)) ])
                /\ pc' = "aggregate"
                /\ error' = error
    /\ calls' = Append(calls, "Tukey HSD")
    /\ trace' = Append(trace, "EXECUTE_POSTHOC")
    /\ UNCHANGED << caller_vars, alpha, data, arg, test_arg, verdict, groups, parametric, returned >>

\* auto_compare, line 441
Aggregate ==
    /\ pc = "aggregate"
    /\ returned' = result
    /\ trace' = Append(trace, "AGGREGATE")
    /\ pc' = "returned"
    /\ UNCHANGED << caller_vars, alpha, data, arg, test_arg, verdict, groups, parametric, result, error, calls >>

\* data[value_col]
ValueColumn(table) == [ i \in 1..Len(table) |-> table[i].value ]

\* a direct call test_normality(data[value_col], test): lines 91-119
TestNormalityCall ==
    /\ pc = "start"
    /\ \E test \in NormalityTestNames, p \in normality_outcomes :
         LET out == test_normality(ValueColumn(data), test, alpha, p)
         IN /\ test_arg' = test
            /\ verdict' = out.value
            /\ error' = out.error
            /\ pc' = IF out.error = "none" THEN "normality_returned" ELSE "normality_raised"
            /\ calls' = IF NormalityRuns(ValueColumn(data), test)
                        THEN Append(calls, test) ELSE calls
    /\ UNCHANGED << caller_vars, alpha, data, arg, groups, parametric, result, returned, trace >>

Next ==
    \/ Validate
    \/ TestNormalityCall
    \/ DescribeStage
    \/ NormalityStage
    \/ SelectStage
    \/ ExecuteMain
    \/ ExecutePostHoc
    \/ Aggregate

Spec == Init /\ [][Next]_vars

\* the same calls on tables with interleaved groups, on an engine with the default or
\* a stricter significance level
InitRows ==
    /\ alpha \in { DefaultAlpha, StrictAlpha }
    /\ data \in RowTables
    /\ arg = None
    /\ test_arg = "shapiro"
    /\ verdict = None
    /\ pc = "start"
    /\ groups = << >>
    /\ parametric = None
    /\ result = None
    /\ returned = None
    /\ error = "none"
    /\ trace = << >>
    /\ calls = << >>
    /\ ThreadsIdle /\ BatchIdle /\ CliIdle /\ StarsIdle /\ ModulesIdle

SpecRows == InitRows /\ [][Next]_vars

\* ------------------------------------- auto_compare on a call's own locals
\* The stages of auto_compare once more, as functions of the locals L of one call,
\* the table and the engine's alpha, for the callers that run auto_compare as one
\* step and for calls that run side by side. The library routines have no state:
\* called again with the same arguments they return what they returned before, so
\* lib holds the answers given so far and a stage returns pairs << locals, lib >>.
MainTestNames ==
    { "Independent t-test", "Mann-Whitney U test", "One-way ANOVA", "Kruskal-Wallis H test" }

\* no library routine has been called yet
NoAnswers ==
    [ normality |-> [ g \in Labels |-> None ],
      main      |-> [ t \in MainTestNames |-> None ],
      tukey     |-> None ]

\* the locals at entry of auto_compare(data, value_col, group_col, parametric)
LocalInit(forced) ==
    [ pc |-> "start", arg |-> forced, groups |-> << >>, parametric |-> forced,
      result |-> None, returned |-> None, error |-> "none" ]

LocalSamples(table, gs) == [ i \in 1..Len(gs) |-> GroupValues(table, gs[i]) ]

\* lines 363-379
LValidate(L, table, lib) ==
    LET gs == Unique(GroupColumn(table))
    IN { << IF Len(gs) < 2
            THEN [ L EXCEPT !.groups = gs, !.pc = "raised",
                            !.error = "ValueError: Need at least 2 groups for comparison" ]
            ELSE [ L EXCEPT !.groups = gs, !.pc = "describe", !.result = Some(NewResult(gs)) ],
            lib >> }

\* lines 381-391
LDescribe(L, table, lib) ==
    { << [ L EXCEPT !.result = Some([ Get(L.result) EXCEPT
                                       !.descriptive_stats = DescribeAll(table, L.groups) ]),
                    !.pc = AfterDescribe(L.parametric) ],
         lib >> }

\* the p-values the normality routine can return to this call, NaN where
\* test_normality does not reach the routine
NormalityAnswers(gs, table, lib) ==
    { ps \in [ 1..Len(gs) -> normality_outcomes \cup { NaN } ] :
        \A i \in 1..Len(gs) :
          IF NormalityRuns(GroupValues(table, gs[i]), "shapiro")
          THEN /\ ps[i] # NaN
               /\ IsSome(lib.normality[gs[i]]) => ps[i] = Get(lib.normality[gs[i]])
          ELSE ps[i] = NaN }

\* lines 394-408
LNormality(L, table, a, lib) ==
    LET gs == L.groups
        idx(g) == CHOOSE i \in 1..Len(gs) : gs[i] = g
        verdicts(ps) == [ g \in { gs[i] : i \in 1..Len(gs) } |->
                           Get(test_normality(GroupValues(table, g), "shapiro", a,
                                              ps[idx(g)]).value) ]
        answered(ps) == [ g \in Labels |->
                           IF \E i \in 1..Len(gs) : gs[i] = g /\ ps[i] # NaN
                           THEN Some(ps[idx(g)]) ELSE lib.normality[g] ]
    IN { << [ L EXCEPT !.result = Some([ Get(L.result) EXCEPT !.normality_tests = verdicts(ps) ]),
                       !.parametric = Some(all_normal(verdicts(ps))),
                       !.pc = "select" ],
            [ lib EXCEPT !.normality = answered(ps) ] >> :
         ps \in NormalityAnswers(gs, table, lib) }

\* line 410
LSelect(L, lib) ==
    { << [ L EXCEPT !.result = Some([ Get(L.result) EXCEPT !.parametric = L.parametric ]),
                    !.pc = "execute_main" ],
         lib >> }

\* LExecuteMain with a test whose p-value comes from random resampling with no
\* fixed seed: a second call with the same samples gets a p-value of its own
LExecuteMain_resampled(L, table, a, lib) ==
    LET test == SelectTest(Len(L.groups), Get(L.parametric))
        samples == LocalSamples(table, L.groups)
        after(p) ==
            IF p = Raises
            THEN [ L EXCEPT !.pc = "raised", !.error = "ValueError: raised by the library" ]
            ELSE LET main == RunMain(test, samples, a, p)
                 IN [ L EXCEPT !.result = Some([ Get(L.result) EXCEPT !.main_test = Some(main) ]),
                               !.pc = AfterMain(PostHocTriggered(Get(L.parametric),
                                                                 Len(L.groups), main)) ]
    IN { << after(p), [ lib EXCEPT !.main[test] = Some(p) ] >> :
         p \in MainOutcomes(test, CleanSizes(samples)) }

\* lines 412-439 without the Tukey call
LExecuteMain(L, table, a, lib) ==
    LET test == SelectTest(Len(L.groups), Get(L.parametric))
        samples == LocalSamples(table, L.groups)
        answers == IF IsSome(lib.main[test]) THEN { Get(lib.main[test]) }
                   ELSE MainOutcomes(test, CleanSizes(samples))
        after(p) ==
            IF p = Raises
            THEN [ L EXCEPT !.pc = "raised", !.error = "ValueError: raised by the library" ]
            ELSE LET main == RunMain(test, samples, a, p)
                 IN [ L EXCEPT !.result = Some([ Get(L.result) EXCEPT !.main_test = Some(main) ]),
                               !.pc = AfterMain(PostHocTriggered(Get(L.parametric),
                                                                 Len(L.groups), main)) ]
    IN { << after(p), [ lib EXCEPT !.main[test] = Some(p) ] >> : p \in answers }

\* what tukey_hsd can meet: statsmodels missing, or the adjusted p-value of each pair
TukeyAnswers(table, lib) ==
    IF IsSome(lib.tukey) THEN { Get(lib.tukey) }
    ELSE { [ installed |-> FALSE, ps |-> << >> ] }
           \cup { [ installed |-> TRUE, ps |-> ps ] :
                    ps \in [ 1..Len(TukeyPairs(TukeyGroups(table))) -> PValues ] }

\* lines 434-436
LExecutePostHoc(L, table, a, lib) ==
    { << IF ~t.installed
         THEN [ L EXCEPT !.pc = "raised",
                         !.error = "ImportError: statsmodels required for Tukey HSD" ]
         ELSE [ L EXCEPT !.result = Some([ Get(L.result) EXCEPT
                                             !.post_hoc_tests = Some(tukey_hsd(table, a, t.ps)) ]),
                         !.pc = "aggregate" ],
         [ lib EXCEPT !.tukey = Some(t) ] >> :
      t \in TukeyAnswers(table, lib) }

\* line 441
LAggregate(L, lib) ==
    { << [ L EXCEPT !.returned = L.result, !.pc = "returned" ], lib >> }

\* one stage of the call
LocalStep(L, table, a, lib) ==
    IF L.pc = "start" THEN LValidate(L, table, lib)
    ELSE IF L.pc = "describe" THEN LDescribe(L, table, lib)
    ELSE IF L.pc = "normality" THEN LNormality(L, table, a, lib)
    ELSE IF L.pc = "select" THEN LSelect(L, lib)
    ELSE IF L.pc = "execute_main" THEN LExecuteMain(L, table, a, lib)
    ELSE IF L.pc = "execute_posthoc" THEN LExecutePostHoc(L, table, a, lib)
    ELSE IF L.pc = "aggregate" THEN LAggregate(L, lib)
    ELSE { }

LocalDone(L) == L.pc \in { "returned", "raised" }

\* the states a call can be in after at most n further stages
RECURSIVE LocalRun(_, _, _, _)
LocalRun(S, table, a, n) ==
    IF n = 0 THEN S
    ELSE LocalRun({ s \in S : LocalDone(s[1]) }
                    \cup UNION { LocalStep(s[1], table, a, s[2]) : s \in S },
                  table, a, n - 1)

\* auto_compare has at most this many stages
NumStages == 7

\* how a call ends: the dictionary it returns or the exception that leaves it
Outcome(L) == [ returned |-> L.returned, error |-> L.error ]

\* everything auto_compare(table, parametric=forced) can do on an engine with alpha a
AutoCompareOutcomes(table, forced, a) ==
    { Outcome(s[1]) : s \in LocalRun({ << LocalInit(forced), NoAnswers >> }, table, a, NumStages) }

\* ------------------------------------------- calls running side by side
\* number of threads calling auto_compare on the one engine
NumThreads == 2

\* the tables the threads share: one, two and three groups, first seen in reverse
\* lexicographic order, with enough values for the normality routine or too few
ThreadTables ==
    { Block("A", 1, 0),
      Block("B", MaxValid, 0) \o Block("A", MaxValid, 0),
      Block("B", MaxValid, 0) \o Block("A", 1, MaxMissing),
      Block("C", MaxValid, 0) \o Block("B", 1, MaxMissing) \o Block("A", 1, MaxMissing) }

\* the values of the parametric argument
ParametricArgs == { None, Some(TRUE), Some(FALSE) }
ArgRank(f) == IF f = None THEN 0 ELSE IF f = Some(TRUE) THEN 1 ELSE 2

InitThreads ==
    /\ alpha = DefaultAlpha
    /\ data \in ThreadTables
    /\ threads \in [ 1..NumThreads -> { LocalInit(f) : f \in ParametricArgs } ]
    \* the threads are interchangeable: their arguments are taken in one order only
    /\ \A t, u \in 1..NumThreads : t < u => ArgRank(threads[t].arg) <= ArgRank(threads[u].arg)
    /\ library = NoAnswers
    /\ alone = [ f \in ParametricArgs |-> AutoCompareOutcomes(data, f, alpha) ]
    /\ arg = None /\ test_arg = "shapiro" /\ verdict = None /\ pc = "idle"
    /\ groups = << >> /\ parametric = None /\ result = None /\ returned = None
    /\ error = "none" /\ trace = << >> /\ calls = << >>
    /\ BatchIdle /\ CliIdle /\ StarsIdle /\ ModulesIdle

\* ThreadStage for an engine that keeps the parametric flag in an attribute of its
\* own: at line 410 a call finds there what the last call to test normality or to
\* be forced left
ThreadStage_shared(t) ==
    \E u \in DOMAIN threads :
      LET L == IF threads[t].pc = "select" /\ IsSome(threads[u].parametric)
               THEN [ threads[t] EXCEPT !.parametric = threads[u].parametric ]
               ELSE threads[t]
      IN \E s \in LocalStep(L, data, alpha, library) :
           /\ threads' = [ threads EXCEPT ![t] = s[1] ]
           /\ library' = s[2]
           /\ UNCHANGED << alone, engine_vars, batch_vars, cli_vars, stars_vars, module_vars >>

\* thread t runs the next stage of its call: the stage reads self.alpha and the
\* table and writes the call's locals
ThreadStage(t) ==
    \E s \in LocalStep(threads[t], data, alpha, library) :
      /\ threads' = [ threads EXCEPT ![t] = s[1] ]
      /\ library' = s[2]
      /\ UNCHANGED << alone, engine_vars, batch_vars, cli_vars, stars_vars, module_vars >>

NextThreads == \E t \in 1..NumThreads : ThreadStage(t)

SpecThreads == InitThreads /\ [][NextThreads]_vars

\* ------------------------------------------- compare_multiple_parameters
\* the parameter_cols argument: the columns of the wide table that are compared
ParameterCols == << "p1", "p2" >>
BatchLabels == { "A", "B" }

\* the wide tables: row i holds a label and, in each parameter column, the value i
\* or a missing value
BatchTables ==
    UNION { { [ i \in 1..k |->
                  [ group |-> gs[i],
                    values |-> [ c \in 1..Len(ParameterCols) |-> IF ok[i][c] THEN i ELSE NaN ] ] ] :
                gs \in [ 1..k -> BatchLabels ],
                ok \in [ 1..k -> [ 1..Len(ParameterCols) -> BOOLEAN ] ] } :
            k \in 0..MaxBatchRows }

\* data.dropna()[[param, group_col]]: the rows without a missing value in any column
ParamData_whole_frame(table, c) ==
    LET kept == SelectSeq(table, LAMBDA r : \A d \in 1..Len(ParameterCols) : r.values[d] # NaN)
    IN [ i \in 1..Len(kept) |-> [ group |-> kept[i].group, value |-> kept[i].values[c] ] ]

\* data[[param, group_col]].dropna() for the parameter column c: line 589
ParamData(table, c) ==
    LET kept == SelectSeq(table, LAMBDA r : r.values[c] # NaN)
    IN [ i \in 1..Len(kept) |-> [ group |-> kept[i].group, value |-> kept[i].values[c] ] ]

\* data[[param, group_col]] for the parameter column c, missing values kept: the
\* frame a caller hands to auto_compare to compare that column alone
ColumnFrame(table, c) ==
    [ i \in 1..Len(table) |-> [ group |-> table[i].group, value |-> table[i].values[c] ] ]

\* the keys of all_results
ResultKeys == { all_results[i].key : i \in 1..Len(all_results) }

InitBatch ==
    /\ batch_data \in BatchTables
    /\ batch_parametric \in ParametricArgs
    /\ param_i = 1
    /\ all_results = << >>
    /\ batch_pc = "loop"
    /\ printed = << >>
    /\ EngineIdle /\ ThreadsIdle /\ CliIdle /\ StarsIdle /\ ModulesIdle

\* lines 585-594: a parameter column without any value is skipped
BatchSkip ==
    /\ batch_pc = "loop" /\ param_i <= Len(ParameterCols)
    /\ Len(ParamData(batch_data, param_i)) = 0
    /\ printed' = Append(printed, [ param |-> ParameterCols[param_i], line |-> "No data, skipping" ])
    /\ param_i' = param_i + 1
    /\ UNCHANGED << batch_data, batch_parametric, all_results, batch_pc >>
    /\ UNCHANGED << engine_vars, thread_vars, cli_vars, stars_vars, module_vars >>

\* lines 585-608: auto_compare on the rows of one parameter column; its report is
\* stored, its exception is printed and the loop goes on
BatchAnalyze ==
    /\ batch_pc = "loop" /\ param_i <= Len(ParameterCols)
    /\ Len(ParamData(batch_data, param_i)) > 0
    /\ \E o \in AutoCompareOutcomes(ParamData(batch_data, param_i), batch_parametric, alpha) :
         IF o.error = "none"
         THEN /\ all_results' = Append(all_results, [ key |-> ParameterCols[param_i],
                                                      value |-> Get(o.returned) ])
              /\ printed' = printed
         ELSE /\ all_results' = all_results
              /\ printed' = Append(printed, [ param |-> ParameterCols[param_i],
                                              line |-> "Error analyzing: " \o o.error ])
    /\ param_i' = param_i + 1
    /\ UNCHANGED << batch_data, batch_parametric, batch_pc >>
    /\ UNCHANGED << engine_vars, thread_vars, cli_vars, stars_vars, module_vars >>

\* lines 610-628: the summary and the return of all_results
BatchReturn ==
    /\ batch_pc = "loop" /\ param_i > Len(ParameterCols)
    /\ LET significant_params ==
             SelectSeq(all_results, LAMBDA e : Get(e.value.main_test).significant)
       IN printed' = Append(printed, [ param |-> "", line |-> "Summary",
                                       tested |-> Len(all_results),
                                       significant |-> Len(significant_params) ])
    /\ batch_pc' = "returned"
    /\ UNCHANGED << batch_data, batch_parametric, param_i, all_results >>
    /\ UNCHANGED << engine_vars, thread_vars, cli_vars, stars_vars, module_vars >>

NextBatch == BatchSkip \/ BatchAnalyze \/ BatchReturn

SpecBatch == InitBatch /\ [][NextBatch]_vars

\* ------------------------------------------------------- the stats command
CliParamNames == { "Length", "Volume" }
CliConditions == { "A", "B" }

\* what db.get_measurements returns: no rows, or one row per stored measurement. The
\* columns are those of the imported file: a long file has the columns
\* parameter_name and value, a wide file has one column per parameter and no column
\* parameter_name.
CliFrames ==
    { [ long |-> l, rows |-> r ] :
        l \in BOOLEAN,
        r \in UNION { { [ i \in 1..k |->
                            [ parameter_name |-> ns[i], condition |-> cs[i],
                              value |-> IF ok[i] THEN i ELSE NaN ] ] :
                          ns \in [ 1..k -> CliParamNames ], cs \in [ 1..k -> CliConditions ],
                          ok \in [ 1..k -> BOOLEAN ] } : k \in 0..MaxCliRows } }

\* args.parameters or db.get_parameters(args.assay): line 156
CliParameterLists == UNION { [ 1..k -> CliParamNames ] : k \in 0..MaxCliParams }

\* df[df['parameter_name'] == param] as auto_compare reads it, with the columns
\* value and condition: lines 163 and 171
ParamFrame(frame, param) ==
    LET kept == SelectSeq(frame.rows, LAMBDA r : r.parameter_name = param)
    IN [ i \in 1..Len(kept) |-> [ group |-> kept[i].condition, value |-> kept[i].value ] ]

\* cmd_func(args) or 0: line 344
OrZero(r) == IF r = 0 THEN 0 ELSE r

InitCli ==
    /\ df \in CliFrames
    /\ parameters \in CliParameterLists
    /\ cli_i = 1
    /\ cli_pc = "start"
    /\ exit_code = None
    /\ cli_out = << >>
    /\ EngineIdle /\ ThreadsIdle /\ BatchIdle /\ StarsIdle /\ ModulesIdle

\* cmd_stats, lines 146-160: connect, load the measurements, leave with 1 when there
\* are none
StatsLoad ==
    /\ cli_pc = "start"
    /\ IF Len(df.rows) = 0
       THEN /\ cli_out' = Append(cli_out, [ param |-> "", line |-> "No data found for assay." ])
            /\ exit_code' = Some(OrZero(1))
            /\ cli_pc' = "exited"
       ELSE /\ cli_out' = Append(cli_out, [ param |-> "", line |-> "STATISTICAL ANALYSIS" ])
            /\ exit_code' = exit_code
            /\ cli_pc' = "loop"
    /\ UNCHANGED << df, parameters, cli_i >>
    /\ UNCHANGED << engine_vars, thread_vars, batch_vars, stars_vars, module_vars >>

\* line 163 on a frame without the column parameter_name: the KeyError is raised
\* outside the try block, leaves cmd_stats and is caught by main (lines 348-350)
StatsKeyError ==
    /\ cli_pc = "loop" /\ cli_i <= Len(parameters)
    /\ ~df.long
    /\ cli_out' = Append(cli_out, [ param |-> "", line |-> "Error: 'parameter_name'" ])
    /\ exit_code' = Some(1)
    /\ cli_pc' = "exited"
    /\ UNCHANGED << df, parameters, cli_i >>
    /\ UNCHANGED << engine_vars, thread_vars, batch_vars, stars_vars, module_vars >>

\* lines 163-165: no row for the parameter
StatsSkip ==
    /\ cli_pc = "loop" /\ cli_i <= Len(parameters)
    /\ df.long
    /\ Len(ParamFrame(df, parameters[cli_i])) = 0
    /\ cli_i' = cli_i + 1
    /\ UNCHANGED << df, parameters, cli_pc, exit_code, cli_out >>
    /\ UNCHANGED << engine_vars, thread_vars, batch_vars, stars_vars, module_vars >>

\* lines 167-188: auto_compare on the rows of the parameter; the report is printed,
\* an exception is printed as "Error: ..." and the loop goes on
StatsAnalyze ==
    /\ cli_pc = "loop" /\ cli_i <= Len(parameters)
    /\ df.long
    /\ Len(ParamFrame(df, parameters[cli_i])) > 0
    /\ \E o \in AutoCompareOutcomes(ParamFrame(df, parameters[cli_i]), None, alpha) :
         cli_out' = Append(cli_out,
                           IF o.error = "none"
                           THEN [ param |-> parameters[cli_i],
                                  line |-> "Test: " \o Get(Get(o.returned).main_test).test_name ]
                           ELSE [ param |-> parameters[cli_i], line |-> "Error: " \o o.error ])
    /\ cli_i' = cli_i + 1
    /\ UNCHANGED << df, parameters, cli_pc, exit_code >>
    /\ UNCHANGED << engine_vars, thread_vars, batch_vars, stars_vars, module_vars >>

\* lines 190-191 and main, line 344: the loop is over, cmd_stats returns 0
StatsReturn ==
    /\ cli_pc = "loop" /\ cli_i > Len(parameters)
    /\ exit_code' = Some(OrZero(0))
    /\ cli_pc' = "exited"
    /\ UNCHANGED << df, parameters, cli_i, cli_out >>
    /\ UNCHANGED << engine_vars, thread_vars, batch_vars, stars_vars, module_vars >>

NextCli == StatsLoad \/ StatsKeyError \/ StatsSkip \/ StatsAnalyze \/ StatsReturn

SpecCli == InitCli /\ [][NextCli]_vars

\* ---------------------------------------------------- SignificanceAnnotator
\* the thresholds of get_significance_stars, in ten-thousandths: 0.001, 0.01, 0.05
ThreeStarsBelow == 10
TwoStarsBelow == 100
OneStarBelow == 500

\* get_significance_stars with inclusive comparisons
get_significance_stars_inclusive(p) ==
    IF p # NaN /\ p <= ThreeStarsBelow THEN "***"
    ELSE IF p # NaN /\ p <= TwoStarsBelow THEN "**"
    ELSE IF p # NaN /\ p <= OneStarBelow THEN "*"
    ELSE ""

\* SignificanceAnnotator.get_significance_stars(p_value)
get_significance_stars(p) ==
    IF FloatLt(p, ThreeStarsBelow) THEN "***"
    ELSE IF FloatLt(p, TwoStarsBelow) THEN "**"
    ELSE IF FloatLt(p, OneStarBelow) THEN "*"
    ELSE ""

InitStars ==
    /\ stars_p \in (0..MaxStarsP) \cup { NaN }
    /\ stars = None
    /\ EngineIdle /\ ThreadsIdle /\ BatchIdle /\ CliIdle /\ ModulesIdle

GetStars ==
    /\ stars = None
    /\ stars' = Some(get_significance_stars(stars_p))
    /\ UNCHANGED << engine_vars, thread_vars, batch_vars, cli_vars, stars_p, module_vars >>

NextStars == GetStars

SpecStars == InitStars /\ [][NextStars]_vars

\* the state around the modules below, left alone by them
compare_vars == << engine_vars, thread_vars, batch_vars, cli_vars, stars_vars >>
CompareIdle == EngineIdle /\ ThreadsIdle /\ BatchIdle /\ CliIdle /\ StarsIdle

\* ------------------------------------------ calls that pass equal_var
\* the two-group tables
KwTables == UNION { TablesOf(o) : o \in { g \in GroupOrders : Len(g) = 2 } }
\* the methods a caller may hand an equal_var keyword to
KwMethods == { "auto_compare", "independent_t_test" }

InitKw ==
    /\ kw_call \in KwMethods
    /\ kw_data \in KwTables
    /\ kw_equal_var \in { None, Some(TRUE), Some(FALSE) }
    /\ kw_returned = None
    /\ kw_error = "none"
    /\ CompareIdle /\ AnovaIdle /\ ProfilesIdle /\ DbIdle /\ ExportIdle

\* auto_compare(data, value_col, group_col, parametric=True[, equal_var=...]): the
\* signature of lines 337-343 has no equal_var parameter, so a call that passes the
\* keyword ends with TypeError before the body runs; without it the call runs
\* lines 344-441, where line 419 calls independent_t_test with two arguments
CompareWithKeyword ==
    /\ kw_call = "auto_compare" /\ kw_returned = None /\ kw_error = "none"
    /\ IF IsSome(kw_equal_var)
       THEN /\ kw_error' = "TypeError: auto_compare() got an unexpected keyword argument 'equal_var'"
            /\ kw_returned' = None
       ELSE \E o \in AutoCompareOutcomes(kw_data, Some(TRUE), DefaultAlpha) :
              /\ kw_returned' = (IF o.error = "none" THEN Some(Get(o.returned).main_test) ELSE None)
              /\ kw_error' = o.error
    /\ UNCHANGED << kw_call, kw_data, kw_equal_var >>
    /\ UNCHANGED << compare_vars, anova_vars, profile_vars, db_vars, export_vars >>

\* independent_t_test(group1, group2[, equal_var=...]) on the two groups of the
\* table: lines 121-168, equal_var defaulting to True
TTestWithKeyword ==
    /\ kw_call = "independent_t_test" /\ kw_returned = None /\ kw_error = "none"
    /\ LET gs == Unique(GroupColumn(kw_data))
           group1 == GroupValues(kw_data, gs[1])
           group2 == GroupValues(kw_data, gs[2])
           equal_var == IF IsSome(kw_equal_var) THEN Get(kw_equal_var) ELSE TRUE
       IN \E p \in ttest_ind_outcomes(Len(dropna(group1)), Len(dropna(group2)), equal_var) :
            kw_returned' = Some(Some(independent_t_test(group1, group2, equal_var, DefaultAlpha, p)))
    /\ UNCHANGED << kw_call, kw_data, kw_equal_var, kw_error >>
    /\ UNCHANGED << compare_vars, anova_vars, profile_vars, db_vars, export_vars >>

NextKw == CompareWithKeyword \/ TTestWithKeyword

SpecKw == InitKw /\ [][NextKw]_vars

\* ------------------------------------------- one_way_anova: eta squared
\* Python floats round every result to the nearest value with a fixed number of
\* significant bits (ties to even). A float is << m, e >>, the value m * 2^e with
\* |m| < 2^MantissaBits, m odd or zero.
MantissaBits == 3
\* the observations: the integers 1..MaxAnovaValue, each exact as a float
MaxAnovaValue == 5
\* most observations per group and most groups passed to one_way_anova
MaxGroupLen == 3
MaxAnovaGroups == 2

RECURSIVE Pow2(_)
Pow2(n) == IF n <= 0 THEN 1 ELSE 2 * Pow2(n - 1)

RECURSIVE BitLen(_)
BitLen(n) == IF n = 0 THEN 0 ELSE 1 + BitLen(n \div 2)

Abs(x) == IF x < 0 THEN 0 - x ELSE x
Sign(x) == IF x < 0 THEN 0 - 1 ELSE 1
Min(a, b) == IF a < b THEN a ELSE b

RECURSIVE Canon(_, _)
Canon(m, e) ==
    IF m = 0 THEN << 0, 0 >>
    ELSE IF m % 2 = 0 THEN Canon(m \div 2, e + 1)
    ELSE << m, e >>

\* the float nearest to M * 2^e, ties to the even mantissa
RoundFloat(M, e) ==
    LET a == Abs(M)
        s == BitLen(a) - MantissaBits
    IN IF s <= 0 THEN Canon(M, e)
       ELSE LET q == a \div Pow2(s)
                r == a % Pow2(s)
                half == Pow2(s - 1)
                up == r > half \/ (r = half /\ q % 2 = 1)
            IN Canon(Sign(M) * (IF up THEN q + 1 ELSE q), e + s)

FZero == << 0, 0 >>
FOne == << 1, 0 >>
FromInt(n) == RoundFloat(n, 0)

\* x + y, x - y, x * y, x / y on floats. The operands are values: each is
\* computed once, before the operation, as Python evaluates its arguments (the
\* sets { x } and { y } bind the values of the operands)
FAdd(x, y) ==
    CHOOSE r \in { LET e == Min(a[2], b[2])
                   IN RoundFloat(a[1] * Pow2(a[2] - e) + b[1] * Pow2(b[2] - e), e) :
                   a \in { x }, b \in { y } } : TRUE
FSub(x, y) == CHOOSE r \in { FAdd(a, << 0 - b[1], b[2] >>) : a \in { x }, b \in { y } } : TRUE
FMul(x, y) ==
    CHOOSE r \in { RoundFloat(a[1] * b[1], a[2] + b[2]) : a \in { x }, b \in { y } } : TRUE
\* the quotient is taken to 2 * MantissaBits + 2 further bits, with a last bit that
\* tells whether a remainder was left, and then rounded
FDiv(x, y) ==
    CHOOSE r \in { LET t == 2 * MantissaBits + 2
                       N == Abs(a[1]) * Pow2(t)
                       Q == N \div Abs(b[1])
                       R == N % Abs(b[1])
                   IN RoundFloat(Sign(a[1]) * Sign(b[1]) * (2 * Q + (IF R # 0 THEN 1 ELSE 0)),
                                 a[2] - b[2] - t - 1) :
                   a \in { x }, b \in { y } } : TRUE
\* x < y
FLess(x, y) ==
    LET e == Min(x[2], y[2])
    IN x[1] * Pow2(x[2] - e) < y[1] * Pow2(y[2] - e)

\* sum(xs), from left to right
RECURSIVE FSumTo(_, _)
FSumTo(xs, n) == IF n = 0 THEN FZero ELSE FAdd(FSumTo(xs, n - 1), xs[n])
FSum(xs) == CHOOSE r \in { FSumTo(v, Len(v)) : v \in { xs } } : TRUE

\* g.mean(), np.mean(...)
FMean(xs) == CHOOSE r \in { FDiv(FSum(v), FromInt(Len(v))) : v \in { xs } } : TRUE

\* lines 225-229: the sums of squares and their quotient
grand_mean(gs) == FMean([ i \in 1..Len(gs) |-> FMean(gs[i]) ])
FSquare(x) == FMul(x, x)
ss_between(gs) ==
    FSum([ i \in 1..Len(gs) |->
             FMul(FromInt(Len(gs[i])), FSquare(FSub(FMean(gs[i]), grand_mean(gs)))) ])
ss_total(gs) ==
    FSum([ i \in 1..Len(gs) |->
             FSum([ j \in 1..Len(gs[i]) |-> FSquare(FSub(gs[i][j], grand_mean(gs))) ]) ])
\* line 229, from the two sums computed on lines 227 and 228
eta_squared(between, total) == IF FLess(FZero, total) THEN FDiv(between, total) ELSE NaN

\* the samples handed to one_way_anova, without missing values
AnovaSamples ==
    UNION { [ 1..n -> { FromInt(v) : v \in 1..MaxAnovaValue } ] : n \in 1..MaxGroupLen }

InitAnova ==
    /\ anova_groups \in UNION { [ 1..k -> AnovaSamples ] : k \in 2..MaxAnovaGroups }
    /\ anova_info = None
    /\ CompareIdle /\ KwIdle /\ ProfilesIdle /\ DbIdle /\ ExportIdle

\* one_way_anova(*groups): the effect size part of additional_info, lines 224-243
OneWayAnova ==
    /\ anova_info = None
    /\ \E between \in { ss_between(anova_groups) }, total \in { ss_total(anova_groups) } :
         anova_info' = Some([ eta_squared |-> eta_squared(between, total),
                              ss_between |-> between,
                              ss_total |-> total,
                              num_groups |-> Len(anova_groups),
                              group_ns |-> [ i \in 1..Len(anova_groups) |-> Len(anova_groups[i]) ] ])
    /\ UNCHANGED anova_groups
    /\ UNCHANGED << compare_vars, kw_vars, profile_vars, db_vars, export_vars >>

NextAnova == OneWayAnova

SpecAnova == InitAnova /\ [][NextAnova]_vars

\* ---------------------------------------------------------- ProfileManager
\* most calls made on one ProfileManager
MaxCalls == 3
\* profile names, as sequences of characters: "A B", "A_B" and "C"
ProfileNames == { << "A", " ", "B" >>, << "A", "_", "B" >>, << "C" >> }
Descriptions == { "Original", "Updated" }
\* the characters _sanitize_name replaces: lines 281-285
UnsafeChars == { " ", "/", "\\", ":", "*", "?", "\"", "<", ">", "|" }
\* code points of the characters in use, for sorted()
CharCode(c) ==
    IF c = " " THEN 32 ELSE IF c = "A" THEN 65 ELSE IF c = "B" THEN 66
    ELSE IF c = "C" THEN 67 ELSE 95

\* str.replace(old, new)
ReplaceChar(name, old, new) == [ i \in 1..Len(name) |-> IF name[i] = old THEN new ELSE name[i] ]

\* _sanitize_name: lines 271-286
sanitize_name(name) == [ i \in 1..Len(name) |-> IF name[i] \in UnsafeChars THEN "_" ELSE name[i] ]

\* a < b on strings
RECURSIVE StrLess(_, _)
StrLess(a, b) ==
    IF b = << >> THEN FALSE
    ELSE IF a = << >> THEN TRUE
    ELSE IF Head(a) # Head(b) THEN CharCode(Head(a)) < CharCode(Head(b))
    ELSE StrLess(Tail(a), Tail(b))

\* sorted(names)
RECURSIVE SortedNames(_)
SortedNames(S) ==
    IF S = { } THEN << >>
    ELSE LET least == CHOOSE n \in S : \A m \in S \ { n } : StrLess(n, m)
         IN << least >> \o SortedNames(S \ { least })

\* AnalysisProfile(name=..., description=...): the fields that are modelled
AnalysisProfile(name, description) ==
    [ name |-> name, description |-> description, created_date |-> None, modified_date |-> None ]
ProfileKeys == << "name", "description", "created_date", "modified_date" >>
\* profile.to_json(): the key/value pairs of the dataclass
to_json(profile) ==
    << << "name", profile.name >>, << "description", profile.description >>,
       << "created_date", profile.created_date >>, << "modified_date", profile.modified_date >> >>
\* AnalysisProfile.from_json(text): the fields built from the known keys of the text
from_json(text) ==
    LET filtered_data == SelectSeq(text, LAMBDA kv : SeqContains(ProfileKeys, kv[1]))
        value(k) == filtered_data[CHOOSE i \in 1..Len(filtered_data) : filtered_data[i][1] = k][2]
    IN [ name |-> value("name"), description |-> value("description"),
         created_date |-> value("created_date"), modified_date |-> value("modified_date") ]

\* the directory with the file of that stem written or removed
WriteFile(dir, stem, text) == [ f \in DOMAIN dir \cup { stem } |-> IF f = stem THEN text ELSE dir[f] ]
Unlink(dir, stem) == [ f \in DOMAIN dir \ { stem } |-> dir[f] ]

\* profile with the timestamps of lines 64-67
Stamped(profile, now) ==
    [ profile EXCEPT !.created_date = IF profile.created_date = None THEN Some(now) ELSE @,
                     !.modified_date = Some(now) ]

\* save_profile writing the file before it looks whether one was there
save_profile_write_first(dir, profile, overwrite, now) ==
    LET stem == sanitize_name(profile.name)
    IN IF stem \in DOMAIN dir /\ ~overwrite
       THEN [ dir |-> WriteFile(dir, stem, to_json(Stamped(profile, now))),
              ret |-> Raise("FileExistsError") ]
       ELSE [ dir |-> WriteFile(dir, stem, to_json(Stamped(profile, now))), ret |-> Ok(stem) ]

\* save_profile: lines 49-82; gives the directory afterwards and the path or the error
save_profile(dir, profile, overwrite, now) ==
    LET stem == sanitize_name(profile.name)
    IN IF stem \in DOMAIN dir /\ ~overwrite
       THEN [ dir |-> dir, ret |-> Raise("FileExistsError") ]
       ELSE [ dir |-> WriteFile(dir, stem, to_json(Stamped(profile, now))), ret |-> Ok(stem) ]

\* load_profile: lines 84-107
load_profile(dir, name) ==
    LET stem == sanitize_name(name)
    IN IF stem \notin DOMAIN dir THEN Raise("FileNotFoundError") ELSE Ok(from_json(dir[stem]))

\* list_profiles: lines 109-120
list_profiles(dir) == SortedNames({ ReplaceChar(stem, "_", " ") : stem \in DOMAIN dir })

\* profile_exists: lines 188-200
profile_exists(dir, name) == sanitize_name(name) \in DOMAIN dir

InitProfiles ==
    /\ profiles_dir = << >>
    /\ pm_clock = 0
    /\ pm_call = None
    /\ pm_ret = None
    /\ pm_before = << >>
    /\ current_profile = None
    /\ pm_saved = << >>
    /\ CompareIdle /\ AnovaIdle /\ KwIdle /\ DbIdle /\ ExportIdle

\* what every call of the manager does to the bookkeeping
Called(call) ==
    /\ pm_clock < MaxCalls
    /\ pm_clock' = pm_clock + 1
    /\ pm_call' = Some(call)
    /\ pm_before' = profiles_dir
    /\ UNCHANGED << compare_vars, anova_vars, kw_vars, db_vars, export_vars >>

SaveProfile ==
    \E name \in ProfileNames, description \in Descriptions, overwrite \in BOOLEAN :
        LET out == save_profile(profiles_dir, AnalysisProfile(name, description), overwrite, pm_clock + 1)
        IN /\ Called([ op |-> "save_profile", name |-> name, description |-> description,
                       overwrite |-> overwrite ])
           /\ profiles_dir' = out.dir
           /\ pm_ret' = Some(out.ret)
           /\ pm_saved' = IF out.ret.error = "none"
                          THEN WriteFile(pm_saved, name,
                                         Stamped(AnalysisProfile(name, description), pm_clock + 1))
                          ELSE pm_saved
           /\ UNCHANGED current_profile

LoadProfile ==
    \E name \in ProfileNames :
        LET out == load_profile(profiles_dir, name)
        IN /\ Called([ op |-> "load_profile", name |-> name ])
           /\ pm_ret' = Some(out)
           /\ current_profile' = IF out.error = "none" THEN out.value ELSE current_profile
           /\ UNCHANGED << profiles_dir, pm_saved >>

ListProfiles ==
    /\ Called([ op |-> "list_profiles" ])
    /\ pm_ret' = Some(Ok(list_profiles(profiles_dir)))
    /\ UNCHANGED << profiles_dir, current_profile, pm_saved >>

\* delete_profile: lines 149-168
DeleteProfile ==
    \E name \in ProfileNames :
        LET stem == sanitize_name(name)
            found == stem \in DOMAIN profiles_dir
        IN /\ Called([ op |-> "delete_profile", name |-> name ])
           /\ profiles_dir' = IF found THEN Unlink(profiles_dir, stem) ELSE profiles_dir
           /\ current_profile' = IF found /\ IsSome(current_profile) /\ Get(current_profile).name = name
                                 THEN None ELSE current_profile
           /\ pm_ret' = Some(Ok(found))
           /\ pm_saved' = IF found THEN Unlink(pm_saved, name) ELSE pm_saved

ProfileExists ==
    \E name \in ProfileNames :
        /\ Called([ op |-> "profile_exists", name |-> name ])
        /\ pm_ret' = Some(Ok(profile_exists(profiles_dir, name)))
        /\ UNCHANGED << profiles_dir, current_profile, pm_saved >>

NextProfiles == SaveProfile \/ LoadProfile \/ ListProfiles \/ DeleteProfile \/ ProfileExists

SpecProfiles == InitProfiles /\ [][NextProfiles]_vars

\* ---------------------------------------------------------- SQLiteDatabase
\* most insert_measurements calls on one database
MaxInserts == 2
\* rows of the DataFrame that is inserted (the two rows of test_duplicate_detection)
FrameRows == 2
AssayIds == { 1, 2 }
\* the source_file and condition arguments: None is their default
SourceFiles == { None, Some("same_file.csv"), Some("different_file.csv") }
Conditions == { None, Some("Control"), Some("Treatment") }

\* the rows a query with an optional condition selects: WHERE assay_id = ? AND
\* condition = ? when a condition is given, WHERE assay_id = ? otherwise
\* (lines 208-217 and 240-249)
SelectRows(rows, assay_id, condition) ==
    SelectSeq(rows, LAMBDA r : r.assay_id = assay_id
                               /\ (IsSome(condition) => r.condition = condition))

\* _get_measurement_sources: lines 195-219, the distinct source files that are set
get_measurement_sources(rows, assay_id, condition) ==
    LET found == SelectRows(rows, assay_id, condition)
    IN { found[i].source_file : i \in 1..Len(found) } \ { None }

\* insert_measurements taking any stored measurement of the assay and condition for
\* a duplicate, without looking for the source file among them
insert_measurements_any_source(rows, assay_id, n, source_file, condition, check_duplicates) ==
    LET existing == SelectRows(rows, assay_id, condition)
        duplicate == check_duplicates /\ Len(existing) > 0 /\ IsSome(source_file)
    IN IF duplicate THEN [ rows |-> rows, ret |-> 0 ]
       ELSE [ rows |-> rows \o [ i \in 1..n |-> [ assay_id |-> assay_id, source_file |-> source_file,
                                                  condition |-> condition, parameters |-> i ] ],
              ret |-> n ]

\* insert_measurements: lines 147-193; gives the table afterwards and the count
insert_measurements(rows, assay_id, n, source_file, condition, check_duplicates) ==
    LET existing == SelectRows(rows, assay_id, condition)
        duplicate == /\ check_duplicates
                     /\ Len(existing) > 0 /\ IsSome(source_file)
                     /\ source_file \in get_measurement_sources(rows, assay_id, condition)
    IN IF duplicate THEN [ rows |-> rows, ret |-> 0 ]
       ELSE [ rows |-> rows \o [ i \in 1..n |-> [ assay_id |-> assay_id, source_file |-> source_file,
                                                  condition |-> condition, parameters |-> i ] ],
              ret |-> n ]

\* get_measurement_count: lines 287-299
get_measurement_count(rows, assay_id) == Len(SelectRows(rows, assay_id, None))

InitDb ==
    /\ measurements = << >>
    /\ db_call = None
    /\ db_ret = None
    /\ db_before = << >>
    /\ db_returned = << >>
    /\ CompareIdle /\ AnovaIdle /\ KwIdle /\ ProfilesIdle /\ ExportIdle

InsertMeasurements ==
    /\ Len(db_returned) < MaxInserts
    /\ \E assay_id \in AssayIds, source_file \in SourceFiles, condition \in Conditions,
          check_duplicates \in BOOLEAN :
         LET out == insert_measurements(measurements, assay_id, FrameRows, source_file,
                                        condition, check_duplicates)
         IN /\ db_call' = Some([ assay_id |-> assay_id, source_file |-> source_file,
                                 condition |-> condition, check_duplicates |-> check_duplicates ])
            /\ db_before' = measurements
            /\ measurements' = out.rows
            /\ db_ret' = Some(out.ret)
            /\ db_returned' = Append(db_returned, [ assay_id |-> assay_id, count |-> out.ret ])
    /\ UNCHANGED << compare_vars, anova_vars, kw_vars, profile_vars, export_vars >>

NextDb == InsertMeasurements

SpecDb == InitDb /\ [][NextDb]_vars

\* --------------------------------------------------------------- exporters
\* an engine constructed as StatisticsEngine(alpha=0.1)
LooseAlpha == 100
\* the engines handed to an exporter
ExportAlphas == { StrictAlpha, DefaultAlpha, LooseAlpha }
\* the fixed level of the pairwise 'Significant' column: excel_exporter.py line 414
ExcelLevel == 50
\* the fixed levels of _get_significance_level: statistics_table_exporter.py 188-193
ThreeStarLevel == 1
TwoStarLevel == 10
OneStarLevel == 50
\* the long tables of (condition, value) that are exported: two or three conditions
ExportTables == UNION { TablesOf(o) : o \in { g \in GroupOrders : Len(g) >= 2 } }

\* result.get(key, default) on the report of auto_compare
ResultGet(report, key, default) == IF key \in DOMAIN report THEN report[key] ELSE default

\* the conditions of export(), line 89: sorted(df['condition'].unique())
SortedConditions(table) ==
    SelectSeq(LabelOrder, LAMBDA l : SeqContains(GroupColumn(table), l))

\* stats_df of lines 311-327: per condition in that order, its values that are not
\* missing; a condition without any value is left out
StatsFrame(table) ==
    LET conds == SortedConditions(table)
    IN Concat([ c \in 1..Len(conds) |->
                  LET cond_values == dropna(GroupValues(table, conds[c]))
                  IN [ i \in 1..Len(cond_values) |-> [ group |-> conds[c], value |-> cond_values[i] ] ] ])

\* the cells of the statistics sheet for a report: lines 342-421
StatisticsSheet(report) ==
    LET main_test == ResultGet(report, "main_test", None)
        post_hoc == ResultGet(report, "post_hoc_tests", None)
        rows == IF IsSome(post_hoc) THEN Get(post_hoc) ELSE << >>
    IN [ error |-> "none",
         overall_test |->
             IF IsNone(main_test) THEN None
             ELSE Some(IF ResultGet(report, "is_parametric", None) = Some(FALSE)
                       THEN Get(main_test).test_name \o " (non-parametric)"
                       ELSE Get(main_test).test_name),
         significant |->
             IF IsNone(main_test) THEN None
             ELSE Some(IF Get(main_test).significant THEN "Yes" ELSE "No"),
         pairwise |->
             [ i \in 1..Len(rows) |->
                 [ group1 |-> rows[i].group1, group2 |-> rows[i].group2,
                   test |-> IF ResultGet(report, "is_parametric", Some(TRUE)) \in { None, Some(FALSE) }
                            THEN "Mann-Whitney U" ELSE "Tukey HSD",
                   p_value |-> rows[i].p_value,
                   significant |-> IF FloatLt(rows[i].p_value, ExcelLevel) THEN "Yes" ELSE "No" ] ] ]

\* _write_empty_statistics_sheet: lines 423-430
EmptySheet(message) == [ error |-> message, overall_test |-> None, significant |-> None, pairwise |-> << >> ]

\* _get_significance_level: statistics_table_exporter.py lines 179-195
get_significance_level(p_value) ==
    IF FloatLt(p_value, ThreeStarLevel) THEN "*** (p<0.001)"
    ELSE IF FloatLt(p_value, TwoStarLevel) THEN "** (p<0.01)"
    ELSE IF FloatLt(p_value, OneStarLevel) THEN "* (p<0.05)"
    ELSE "ns (p>=0.05)"

\* the pairwise table for a report: statistics_table_exporter.py lines 153-177
PairwiseRows(report) ==
    LET post_hoc_tests == ResultGet(report, "post_hoc_tests", None)
    IN IF IsNone(post_hoc_tests) \/ Get(post_hoc_tests) = << >>
       THEN << [ group1 |-> "No significant", group2 |-> "differences found",
                 p_value |-> NaN, significant |-> "No" ] >>
       ELSE [ i \in 1..Len(Get(post_hoc_tests)) |->
                [ group1 |-> Get(post_hoc_tests)[i].group1, group2 |-> Get(post_hoc_tests)[i].group2,
                  p_value |-> Get(post_hoc_tests)[i].p_value,
                  significant |-> get_significance_level(Get(post_hoc_tests)[i].p_value) ] ]

InitExport ==
    /\ ex_alpha \in ExportAlphas
    /\ ex_data \in ExportTables
    /\ ex_result = None
    /\ ex_sheet = None
    /\ ex_pairwise = None
    /\ ex_pc = "start"
    /\ CompareIdle /\ AnovaIdle /\ KwIdle /\ ProfilesIdle /\ DbIdle

\* ExcelExporter._create_statistics_sheet: lines 290-421
CreateStatisticsSheet ==
    /\ ex_pc = "start"
    /\ IF StatsFrame(ex_data) = << >>
       THEN ex_sheet' = Some(EmptySheet("none")) /\ ex_result' = None
       ELSE \E o \in AutoCompareOutcomes(StatsFrame(ex_data), None, ex_alpha) :
              IF o.error = "none"
              THEN ex_sheet' = Some(StatisticsSheet(Get(o.returned))) /\ ex_result' = o.returned
              ELSE ex_sheet' = Some(EmptySheet(o.error)) /\ ex_result' = None
    /\ ex_pc' = "sheet_written"
    /\ UNCHANGED << ex_alpha, ex_data, ex_pairwise >>
    /\ UNCHANGED << compare_vars, anova_vars, kw_vars, profile_vars, db_vars >>

\* StatisticsTableExporter._create_pairwise_table: lines 132-177; an exception of
\* auto_compare leaves the method
CreatePairwiseTable ==
    /\ ex_pc = "start"
    /\ \E o \in AutoCompareOutcomes(ex_data, None, ex_alpha) :
         IF o.error = "none"
         THEN /\ ex_pairwise' = Some(PairwiseRows(Get(o.returned)))
              /\ ex_result' = o.returned /\ ex_pc' = "table_built"
         ELSE /\ ex_pairwise' = None /\ ex_result' = None /\ ex_pc' = "table_raised"
    /\ UNCHANGED << ex_alpha, ex_data, ex_sheet >>
    /\ UNCHANGED << compare_vars, anova_vars, kw_vars, profile_vars, db_vars >>

NextExport == CreateStatisticsSheet \/ CreatePairwiseTable

SpecExport == InitExport /\ [][NextExport]_vars

\* ------------------------------------------------------------- properties
Report == Get(result)
GroupSet == { groups[i] : i \in 1..Len(groups) }
ValidCount(g) == Len(dropna(GroupValues(data, g)))
InTrace(stage) == SeqContains(trace, stage)
Pairs(k) == (k * (k - 1)) \div 2
IsSentinel(v) == ~v.is_normal /\ v.statistic = NaN /\ v.p_value = NaN
ParametricTests == { "Independent t-test", "One-way ANOVA" }
OmnibusTests == { "One-way ANOVA", "Kruskal-Wallis H test" }
HypothesisTests ==
    { "Independent t-test", "Mann-Whitney U test", "One-way ANOVA", "Kruskal-Wallis H test" }
\* the call is an auto_compare call that got past the group-count check
InCompare == IsSome(result)

\* C1: with parametric=None the report's parametric flag is true iff every group's
\* normality verdict has is_normal true; a group with fewer than 3 values makes it
\* false; and the main test is of the parametric family iff the flag is true.
C1_ParametricIffAllNormal ==
    (InCompare /\ arg = None /\ IsSome(Report.parametric)) =>
        /\ DOMAIN Report.normality_tests = GroupSet
        /\ Get(Report.parametric) <=> \A g \in GroupSet : Report.normality_tests[g].is_normal
        /\ (\E g \in GroupSet : ValidCount(g) < 3) => ~Get(Report.parametric)
        /\ IsSome(Report.main_test) =>
             (Get(Report.main_test).test_name \in ParametricTests <=> Get(Report.parametric))

\* three groups, two of them normal and one not: the report is non-parametric
C1_Witness ==
    /\ pc = "returned" /\ arg = None /\ Len(groups) = 3
    /\ \A g \in GroupSet : ValidCount(g) >= 3
    /\ Cardinality({ g \in GroupSet : Report.normality_tests[g].is_normal }) = 2
    /\ Report.parametric = Some(FALSE)
    /\ Get(Report.main_test).test_name = "Kruskal-Wallis H test"

\* C2: the main test is determined by (group count, parametric flag): t-test,
\* Mann-Whitney U, one-way ANOVA or Kruskal-Wallis; it is the only hypothesis test
\* the call executes, and it runs on at least 2 groups.
C2_TestDetermined ==
    LET expected ==
          IF Len(groups) = 2
          THEN (IF Get(parametric) THEN "Independent t-test" ELSE "Mann-Whitney U test")
          ELSE (IF Get(parametric) THEN "One-way ANOVA" ELSE "Kruskal-Wallis H test")
    IN /\ \A i \in 1..Len(calls) :
            calls[i] \in HypothesisTests =>
                /\ InCompare /\ Len(groups) >= 2 /\ IsSome(parametric)
                /\ calls[i] = expected
                /\ Cardinality({ j \in 1..Len(calls) : calls[j] \in HypothesisTests }) = 1
       /\ (InCompare /\ IsSome(Report.main_test)) =>
            /\ Get(Report.main_test).test_name = expected
            /\ Report.parametric = parametric
            /\ Len(Get(Report.main_test).group_ns) = Len(groups)

\* two groups on the non-parametric branch: Mann-Whitney U was run and returned
C2_Witness ==
    /\ pc = "returned" /\ Len(groups) = 2 /\ Report.parametric = Some(FALSE)
    /\ Get(Report.main_test).test_name = "Mann-Whitney U test"
    /\ calls[Len(calls)] = "Mann-Whitney U test"

\* C3: the post-hoc stage is entered, and post_hoc_tests is a list, only after a
\* significant omnibus test; otherwise post_hoc_tests is None (never an empty list).
C3_PostHocOnlyAfterSignificantOmnibus ==
    InCompare =>
        LET triggered ==
              /\ IsSome(Report.main_test)
              /\ Get(Report.main_test).test_name \in OmnibusTests
              /\ Get(Report.main_test).significant
        IN /\ (pc = "execute_posthoc" \/ InTrace("EXECUTE_POSTHOC")) => triggered
           /\ IsSome(Report.post_hoc_tests) => triggered
           /\ ~triggered => Report.post_hoc_tests = None

\* three groups, a one-way ANOVA that is not significant: post_hoc_tests is None
C3_Witness ==
    /\ pc = "returned" /\ Len(groups) = 3
    /\ Get(Report.main_test).test_name = "One-way ANOVA"
    /\ Get(Report.main_test).p_value # NaN
    /\ ~Get(Report.main_test).significant
    /\ Report.post_hoc_tests = None

\* C4: after a significant Kruskal-Wallis test on k groups the returned report holds
\* C(k,2) pairwise rows, each significant iff its p-value is below alpha.
C4_KruskalPostHoc ==
    (pc = "returned" /\ Get(Report.main_test).test_name = "Kruskal-Wallis H test"
                     /\ Get(Report.main_test).significant) =>
        /\ IsSome(Report.post_hoc_tests)
        /\ Len(Get(Report.post_hoc_tests)) = Pairs(Len(Report.group_names))
        /\ \A i \in 1..Len(Get(Report.post_hoc_tests)) :
             Get(Report.post_hoc_tests)[i].significant
                <=> FloatLt(Get(Report.post_hoc_tests)[i].p_value, alpha)

\* C5: a post-hoc list of a report with k groups has C(k,2) rows, over the report's
\* groups, with no self-pair and no unordered pair twice.
C5_PostHocPairs ==
    (InCompare /\ IsSome(Report.post_hoc_tests)) =>
        LET rows == Get(Report.post_hoc_tests)
            k == Len(Report.group_names)
            names == { Report.group_names[i] : i \in 1..k }
        IN /\ Cardinality(names) = k
           /\ Len(rows) = Pairs(k)
           /\ \A i \in 1..Len(rows) :
                /\ rows[i].group1 # rows[i].group2
                /\ { rows[i].group1, rows[i].group2 } \subseteq names
           /\ \A i, j \in 1..Len(rows) :
                i # j => { rows[i].group1, rows[i].group2 } # { rows[j].group1, rows[j].group2 }

\* three groups first seen in reverse order, a significant ANOVA, three Tukey rows
C5_Witness ==
    /\ pc = "returned" /\ IsSome(Report.post_hoc_tests)
    /\ Report.group_names = << "C", "B", "A" >>
    /\ Len(Get(Report.post_hoc_tests)) = 3
    /\ \E g \in GroupSet : ValidCount(g) = 1

\* C6: test_normality on fewer than 3 non-missing values does not raise and returns
\* the sentinel verdict (is_normal false, statistic and p_value NaN), whatever the
\* test name; in auto_compare such a group makes the comparison non-parametric.
C6_SmallSampleSentinel ==
    /\ (pc \in { "normality_returned", "normality_raised" }
            /\ Len(dropna(ValueColumn(data))) < 3) =>
         /\ pc = "normality_returned" /\ error = "none"
         /\ IsSome(verdict) /\ IsSentinel(Get(verdict))
         /\ calls = << >>
    /\ (InCompare /\ InTrace("NORMALITY")) =>
         \A g \in GroupSet :
            ValidCount(g) < 3 =>
                /\ IsSentinel(Report.normality_tests[g])
                /\ parametric = Some(FALSE)
                /\ IsSome(Report.parametric) => Report.parametric = Some(FALSE)
                /\ IsSome(Report.main_test) =>
                     Get(Report.main_test).test_name \notin ParametricTests

\* a direct call on 2 values and a missing one, with a test name the engine does
\* not know: the sentinel verdict is returned
C6_Witness ==
    /\ pc = "normality_returned" /\ test_arg = "anderson"
    /\ Len(dropna(ValueColumn(data))) = 2 /\ Len(ValueColumn(data)) = 3
    /\ IsSentinel(Get(verdict))

\* C7: when fewer than 2 groups have at least one observation, auto_compare raises
\* the group-count error before any normality or hypothesis test runs, and returns
\* no report.
C7_TooFewGroupsRejected ==
    LET present == Unique(GroupColumn(data))
        observed == { i \in 1..Len(present) : ValidCount(present[i]) >= 1 }
    IN (Cardinality(observed) < 2 /\ pc \notin { "start", "normality_returned", "normality_raised" }) =>
          /\ pc = "raised"
          /\ error = "ValueError: Need at least 2 groups for comparison"
          /\ calls = << >>
          /\ returned = None

\* C8: if a group has fewer than 2 non-missing values the call does not return a
\* report, and no returned report has a main test whose statistic and p-value are NaN.
C8_InsufficientDataRejected ==
    pc = "returned" =>
        /\ \A g \in GroupSet : ValidCount(g) >= 2
        /\ ~(Get(Report.main_test).statistic = NaN /\ Get(Report.main_test).p_value = NaN)

\* C9: with a forced branch no normality test runs, the report has no normality
\* verdicts, and its parametric flag is the forced value.
C9_ForcedSkipsNormality ==
    (InCompare /\ arg # None) =>
        /\ ~InTrace("NORMALITY") /\ pc # "normality"
        /\ \A i \in 1..Len(calls) : calls[i] # "test_normality"
        /\ DOMAIN Report.normality_tests = {}
        /\ parametric = arg
        /\ InTrace("SELECT") => Report.parametric = arg

\* a forced parametric comparison of two groups too small for a normality test
C9_Witness ==
    /\ pc = "returned" /\ arg = Some(TRUE)
    /\ Report.parametric = Some(TRUE)
    /\ DOMAIN Report.normality_tests = {}
    /\ \A g \in GroupSet : ValidCount(g) = 2
    /\ Get(Report.main_test).test_name = "Independent t-test"

StageOrder ==
    << "DESCRIBE", "NORMALITY", "SELECT", "EXECUTE_MAIN", "EXECUTE_POSTHOC", "AGGREGATE" >>
StageRank(stage) == CHOOSE i \in 1..Len(StageOrder) : StageOrder[i] = stage

\* C10: the stages of one call run in the order DESCRIBE, NORMALITY (only when not
\* forced), SELECT, EXECUTE_MAIN, EXECUTE_POSTHOC (only when triggered), AGGREGATE:
\* each at most once, none before its predecessors, none re-entered.
C10_StagesInOrder ==
    /\ \A i \in 1..Len(trace) : SeqContains(StageOrder, trace[i])
    /\ \A i, j \in 1..Len(trace) : i < j => StageRank(trace[i]) < StageRank(trace[j])
    /\ InTrace("NORMALITY") => (InTrace("DESCRIBE") /\ arg = None)
    /\ InTrace("SELECT") => (InTrace("NORMALITY") <=> arg = None)
    /\ InTrace("SELECT") => InTrace("DESCRIBE")
    /\ InTrace("EXECUTE_MAIN") => InTrace("SELECT")
    /\ InTrace("EXECUTE_POSTHOC") =>
         /\ InTrace("EXECUTE_MAIN")
         /\ Get(Report.main_test).test_name \in OmnibusTests
         /\ Get(Report.main_test).significant
    /\ InTrace("AGGREGATE") => InTrace("EXECUTE_MAIN")
    /\ pc = "returned" <=> InTrace("AGGREGATE")
    /\ (pc = "returned" /\ IsNone(Report.post_hoc_tests)) => ~InTrace("EXECUTE_POSTHOC")

\* a call that runs all six stages
C10_Witness ==
    /\ pc = "returned"
    /\ trace = StageOrder

\* the keys of result['descriptive_stats']
DescribedGroups(r) == { r.descriptive_stats[i].key : i \in 1..Len(r.descriptive_stats) }

\* C11: a call either returns a complete report (descriptive statistics for every
\* group, a main test, the parametric flag, and the post-hoc list when the post-hoc
\* stage was entered) or raises and returns nothing.
C11_CompleteReportOrError ==
    /\ IsSome(returned) =>
         /\ pc = "returned" /\ error = "none" /\ returned = result
         /\ DescribedGroups(Get(returned)) = GroupSet
         /\ Get(returned).num_groups = Len(groups)
         /\ IsSome(Get(returned).main_test)
         /\ IsSome(Get(returned).parametric)
         /\ InTrace("EXECUTE_POSTHOC") => IsSome(Get(returned).post_hoc_tests)
    /\ pc = "returned" => IsSome(returned)
    /\ (pc = "raised" \/ error # "none") => returned = None

\* the post-hoc stage fails after a successful main test: nothing is returned
C11_Witness ==
    /\ pc = "raised" /\ InTrace("EXECUTE_POSTHOC")
    /\ IsSome(Report.main_test) /\ Get(Report.main_test).significant
    /\ returned = None

\* the exception of tukey_hsd, line 266
TukeyImportError == "ImportError: statsmodels required for Tukey HSD"

\* C13: when Tukey HSD cannot run after a significant ANOVA the call fails with the
\* ImportError: the post-hoc stage never ends without Tukey rows unless the call
\* raised, no pairwise Mann-Whitney test is run in place of Tukey HSD, and no report
\* is returned with post_hoc_tests None after a significant ANOVA.
C13_TukeyFailureIsAnError ==
    /\ (InCompare /\ InTrace("EXECUTE_POSTHOC") /\ IsNone(Report.post_hoc_tests)) =>
          /\ pc = "raised" /\ error = TukeyImportError /\ returned = None
    /\ error = TukeyImportError =>
          /\ pc = "raised" /\ returned = None
          /\ Get(Report.main_test).test_name = "One-way ANOVA"
          /\ Get(Report.main_test).significant
          /\ calls[Len(calls)] = "Tukey HSD"
    /\ \A i \in 1..Len(calls) : calls[i] = "Mann-Whitney U test" => Len(groups) = 2 /\ i = Len(calls)
    /\ (IsSome(returned) /\ Get(Get(returned).main_test).test_name = "One-way ANOVA"
          /\ Get(Get(returned).main_test).significant) =>
          /\ IsSome(Get(returned).post_hoc_tests)
          /\ calls[Len(calls)] = "Tukey HSD"

\* Tukey HSD was attempted after a significant ANOVA and its import failed
C13_Witness ==
    /\ error = TukeyImportError
    /\ Len(calls) >= 2 /\ calls[Len(calls) - 1] = "One-way ANOVA"
    /\ IsNone(Report.post_hoc_tests)
\* position of a stage in the trace, 0 when the stage was not entered
StageIndex(stage) ==
    IF InTrace(stage) THEN CHOOSE i \in 1..Len(trace) : trace[i] = stage ELSE 0

\* C15: every returned report holds one descriptive_stats entry (n, mean, std, median,
\* min, max) per entry of group_names, for the forced and the unforced branch and
\* for every test; and the entries are there before the first normality test, before
\* the branch is chosen and before the main test runs.
C15_DescriptiveStatsFirst ==
    /\ IsSome(returned) =>
          LET r == Get(returned)
          IN /\ Len(r.descriptive_stats) = Len(r.group_names)
             /\ \A i \in 1..Len(r.group_names) :
                  LET d == r.descriptive_stats[i]
                  IN /\ d.key = r.group_names[i]
                     /\ DOMAIN d.value = { "n", "mean", "var", "median", "min", "max" }
                     /\ d.value.n = ValidCount(d.key)
                     /\ d.value.mean # NaN <=> ValidCount(d.key) > 0
    /\ (InCompare /\ DescribedGroups(Report) # GroupSet) =>
          /\ calls = << >> /\ trace = << >>
          /\ IsNone(Report.parametric) /\ IsNone(Report.main_test)
    /\ \A stage \in { "NORMALITY", "SELECT", "EXECUTE_MAIN" } :
          InTrace(stage) => (0 < StageIndex("DESCRIBE") /\ StageIndex("DESCRIBE") < StageIndex(stage))

\* a report came back from a forced branch for a table in which one group has no
\* valid value: its statistics are there all the same
C15_Witness ==
    /\ IsSome(returned) /\ IsSome(arg)
    /\ \E g \in GroupSet : ValidCount(g) = 0
    /\ \E i \in 1..Len(Get(returned).descriptive_stats) :
          Get(returned).descriptive_stats[i].value.n = 0
\* the row in which a label occurs first
FirstRow(g) == CHOOSE i \in 1..Len(data) : data[i].group = g /\ \A j \in 1..(i - 1) : data[j].group # g

\* C14: group_names holds every label of the input rows once, in the order in which
\* the labels first occur in the rows, and the group sizes of the main test and the
\* entries of descriptive_stats are in that order too.
C14_FirstSeenOrder ==
    InCompare =>
      LET names == Report.group_names
      IN /\ { names[i] : i \in 1..Len(names) } = { data[i].group : i \in 1..Len(data) }
         /\ \A i, j \in 1..Len(names) : i < j => FirstRow(names[i]) < FirstRow(names[j])
         /\ Len(Report.descriptive_stats) > 0 =>
               /\ Len(Report.descriptive_stats) = Len(names)
               /\ \A i \in 1..Len(names) : Report.descriptive_stats[i].key = names[i]
         /\ IsSome(Report.main_test) =>
               /\ Len(Get(Report.main_test).group_ns) = Len(names)
               /\ \A i \in 1..Len(names) :
                    Get(Report.main_test).group_ns[i] = ValidCount(names[i])

\* a report for rows whose groups are interleaved and whose labels do not first
\* occur in lexicographic order, with groups of different sizes
C14_Witness ==
    /\ IsSome(returned)
    /\ \E i, j, k \in 1..Len(data) :
          i < j /\ j < k /\ data[i].group = data[k].group /\ data[j].group # data[i].group
    /\ \E i, j \in 1..Len(groups) : i < j /\ Rank(groups[i]) > Rank(groups[j])
    /\ \E i, j \in 1..Len(groups) : ValidCount(groups[i]) # ValidCount(groups[j])
\* the normality verdicts of the report and of a direct test_normality call
Verdicts ==
    (IF InCompare THEN { Report.normality_tests[g] : g \in DOMAIN Report.normality_tests } ELSE {})
      \cup { verdict[i] : i \in 1..Len(verdict) }

\* C18: every normality verdict and every main test carries the engine's alpha and
\* decides with a strict inequality against it: is_normal iff p_value > alpha,
\* significant iff p_value < alpha; at p_value = alpha (and for a NaN p-value) the
\* sample is not normal and the test is not significant.
C18_StrictAgainstEngineAlpha ==
    /\ \A v \in Verdicts :
          /\ v.alpha = alpha
          /\ v.is_normal <=> (v.p_value # NaN /\ v.p_value > alpha)
          /\ v.p_value = alpha => ~v.is_normal
    /\ (InCompare /\ IsSome(Report.main_test)) =>
          LET m == Get(Report.main_test)
          IN /\ m.alpha = alpha
             /\ m.significant <=> (m.p_value # NaN /\ m.p_value < alpha)
             /\ m.p_value = alpha => ~m.significant

\* a report of an engine with alpha = 0.01 in which a normality test and the main
\* test both came out at exactly p = alpha
C18_Witness ==
    /\ IsSome(returned) /\ alpha = StrictAlpha /\ arg = None
    /\ \E v \in Verdicts : v.p_value = alpha /\ ~v.is_normal
    /\ Get(Report.main_test).p_value = alpha
    /\ ~Get(Report.main_test).significant
\* C19: get_significance_stars gives '***' for p < 0.001, '**' for 0.001 <= p < 0.01,
\* '*' for 0.01 <= p < 0.05 and '' for p >= 0.05: every p-value falls in exactly one
\* of the four ranges and a p-value on a boundary gets the weaker mark.
C19_StarThresholds ==
    (IsSome(stars) /\ stars_p # NaN) =>
      /\ Get(stars) \in { "***", "**", "*", "" }
      /\ Get(stars) = "***" <=> stars_p < 10
      /\ Get(stars) = "**" <=> (10 <= stars_p /\ stars_p < 100)
      /\ Get(stars) = "*" <=> (100 <= stars_p /\ stars_p < 500)
      /\ Get(stars) = "" <=> stars_p >= 500

\* the call was made with p = 0.05 and returned no mark
C19_Witness == stars_p = 500 /\ stars = Some("")
\* the stage actions and the stage functions describe the same call
StagesAgree ==
    (pc \in { "returned", "raised" }) =>
      [ returned |-> returned, error |-> error ] \in AutoCompareOutcomes(data, arg, alpha)
\* C20: no stage assigns self.alpha or the table, and however the stages of
\* concurrent auto_compare calls on one engine interleave, each call ends the way the
\* same call can end when it runs alone on that table.
C20_CallsDoNotInterfere ==
    /\ [][alpha' = alpha /\ data' = data]_vars
    /\ [](\A t \in DOMAIN threads :
            LocalDone(threads[t]) => Outcome(threads[t]) \in alone[threads[t].arg])

\* a forced-parametric call and a call that tested normality and went the other
\* way both returned, after their stages were interleaved
C20_Witness ==
    /\ \E t, u \in DOMAIN threads :
          /\ threads[t].pc = "returned" /\ threads[t].arg = Some(TRUE)
          /\ Get(threads[t].returned).parametric = Some(TRUE)
          /\ threads[u].pc = "returned" /\ threads[u].arg = None
          /\ Get(threads[u].returned).parametric = Some(FALSE)
    /\ alpha = DefaultAlpha /\ Len(data) > 0
C12_ErrorsReachTheCaller ==
    batch_pc = "returned" =>
      \A c \in 1..Len(ParameterCols) :
        Len(ParamData(batch_data, c)) > 0 => ParameterCols[c] \in ResultKeys
\* the parameters for which the command printed an error of auto_compare
FailedParams ==
    { cli_out[i].param : i \in { j \in 1..Len(cli_out) :
                                   cli_out[j].param # "" /\ SubSeq(cli_out[j].line, 1, 6) = "Error:" } }

\* C17: the stats command exits with 1 whenever auto_compare raised for one of the
\* requested parameters, and with 0 when every analysis went through.
C17_ExitCodeTellsFailure ==
    IsSome(exit_code) =>
      /\ FailedParams # {} => Get(exit_code) = 1
      /\ (FailedParams = {} /\ cli_i > Len(parameters) /\ Len(df.rows) > 0) => Get(exit_code) = 0
\* C27: a direct test_normality call with a test name other than 'shapiro' and
\* 'kstest' raises, for a sample of any size, and no verdict carries such a name.
C27_UnknownTestRejected ==
    /\ (pc \in { "normality_returned", "normality_raised" }
          /\ test_arg \notin { "shapiro", "kstest" }) =>
          /\ pc = "normality_raised" /\ verdict = None
          /\ error = "ValueError: Unknown normality test"
    /\ IsSome(verdict) =>
          Get(verdict).test_name \in { "shapiro", "kstest", "Shapiro-Wilk", "Kolmogorov-Smirnov" }

\* C23: the batch comparison applies auto_compare per parameter column: each entry
\* it returns is a report auto_compare returns for that column and the group
\* column alone, whatever the other columns of the batch hold.
C23_EntryIsTheColumnsReport ==
    batch_pc = "returned" =>
        \A i \in 1..Len(all_results) :
            \E c \in 1..Len(ParameterCols) :
                /\ ParameterCols[c] = all_results[i].key
                /\ \E o \in AutoCompareOutcomes(ColumnFrame(batch_data, c), batch_parametric, alpha) :
                      o.error = "none" /\ Get(o.returned) = all_results[i].value

\* C23 (amended): each entry the batch comparison returns is a report auto_compare
\* returns for the rows of that column and the group column that hold no missing
\* value, whatever the other columns of the batch hold.
C23_EntryIsTheCleanedColumnsReport ==
    batch_pc = "returned" =>
        \A i \in 1..Len(all_results) :
            \E c \in 1..Len(ParameterCols) :
                /\ ParameterCols[c] = all_results[i].key
                /\ \E o \in AutoCompareOutcomes(
                               SelectSeq(ColumnFrame(batch_data, c), LAMBDA r : r.value # NaN),
                               batch_parametric, alpha) :
                      o.error = "none" /\ Get(o.returned) = all_results[i].value

\* a returned batch with an entry for both columns, the two built from different
\* rows: a row holds a value in one column and a missing value in the other
C23_Witness ==
    /\ batch_pc = "returned" /\ Len(all_results) = 2
    /\ \E r \in 1..Len(batch_data) :
          batch_data[r].values[1] = NaN /\ batch_data[r].values[2] # NaN
    /\ all_results[1].value.descriptive_stats # all_results[2].value.descriptive_stats

\* C22: a two-group compare call on the parametric branch runs the pooled-variance
\* t-test when the caller passes no equal_var and Welch's t-test when the caller
\* passes equal_var=False.
C22_CallerChoosesVariance ==
    (kw_call = "auto_compare" /\ (IsSome(kw_returned) \/ kw_error # "none")) =>
        /\ kw_error = "none" /\ IsSome(kw_returned) /\ IsSome(Get(kw_returned))
        /\ Get(Get(kw_returned)).test_name =
              (IF kw_equal_var = Some(FALSE) THEN "Welch's t-test" ELSE "Independent t-test")

\* C21: for groups whose total sum of squares is not zero, of equal or unequal
\* size, the eta squared one_way_anova reports lies in [0, 1]: the ss_between
\* it computed does not exceed the ss_total it computed.
C21_EtaSquaredInUnitInterval ==
    (IsSome(anova_info) /\ FLess(FZero, Get(anova_info).ss_total)) =>
        /\ ~FLess(Get(anova_info).eta_squared, FZero)
        /\ ~FLess(FOne, Get(anova_info).eta_squared)
        /\ ~FLess(Get(anova_info).ss_total, Get(anova_info).ss_between)

\* the last call of the manager and what it gave
LastOp == IF IsSome(pm_call) THEN Get(pm_call).op ELSE "none"
LastRet == Get(pm_ret)

\* C24: save_profile with overwrite=False on a name that is stored raises
\* FileExistsError and leaves the stored files as they were, and load_profile of
\* a stored name returns the fields that are stored.
C24_NoOverwriteKeepsStored ==
    /\ (LastOp = "save_profile" /\ ~Get(pm_call).overwrite
           /\ profile_exists(pm_before, Get(pm_call).name)) =>
          /\ LastRet = Raise("FileExistsError")
          /\ profiles_dir = pm_before
    /\ (LastOp = "load_profile" /\ profile_exists(pm_before, Get(pm_call).name)) =>
          /\ profiles_dir = pm_before
          /\ LastRet = Ok(from_json(pm_before[sanitize_name(Get(pm_call).name)]))

\* a save without overwrite was refused while the stored profile holds another
\* description and an earlier date than the one offered
C24_Witness ==
    /\ LastOp = "save_profile" /\ ~Get(pm_call).overwrite
    /\ LastRet = Raise("FileExistsError")
    /\ LET stored == from_json(profiles_dir[sanitize_name(Get(pm_call).name)])
       IN /\ stored.name = Get(pm_call).name
          /\ stored.description # Get(pm_call).description
          /\ Get(stored.modified_date) < pm_clock

\* C25: list_profiles returns exactly the names of the profiles saved and not
\* deleted since, and a name whose delete_profile returned True is neither listed
\* nor reported by profile_exists.
C25_ListIsWhatWasSaved ==
    /\ LastOp = "list_profiles" => LastRet = Ok(SortedNames(DOMAIN pm_saved))
    /\ (LastOp = "delete_profile" /\ LastRet = Ok(TRUE)) =>
          /\ ~profile_exists(profiles_dir, Get(pm_call).name)
          /\ ~SeqContains(list_profiles(profiles_dir), Get(pm_call).name)

\* C30: profiles saved under distinct names are stored independently: a save is
\* refused as already existing only when that very name is saved, every name
\* saved and not deleted loads as the profile saved under it, and load_profile
\* returns a profile of the name asked for.
C30_DistinctNamesIndependent ==
    /\ (LastOp = "save_profile" /\ LastRet = Raise("FileExistsError")) =>
          Get(pm_call).name \in DOMAIN pm_saved
    /\ \A name \in DOMAIN pm_saved : load_profile(profiles_dir, name) = Ok(pm_saved[name])
    /\ (LastOp = "load_profile" /\ LastRet.error = "none") =>
          Get(LastRet.value).name = Get(pm_call).name

\* the rows stored before the last insert under its assay, condition and source file
StoredForCall ==
    SelectSeq(db_before, LAMBDA r : /\ r.assay_id = Get(db_call).assay_id
                                    /\ r.condition = Get(db_call).condition
                                    /\ r.source_file = Get(db_call).source_file)
RECURSIVE SumCounts(_, _)
SumCounts(rets, assay_id) ==
    IF rets = << >> THEN 0
    ELSE (IF Head(rets).assay_id = assay_id THEN Head(rets).count ELSE 0)
         + SumCounts(Tail(rets), assay_id)
\* every assay holds as many rows as its inserts returned
CountIsSumOfReturns ==
    \A a \in AssayIds : get_measurement_count(measurements, a) = SumCounts(db_returned, a)

\* C26: with check_duplicates=True an insert for an (assay, condition,
\* source_file) that has stored measurements inserts nothing and returns 0, any
\* other insert stores its rows, and every assay's measurement count is the sum
\* of the counts its inserts returned.
C26_DuplicatesAreSkipped ==
    /\ (IsSome(db_call) /\ Get(db_call).check_duplicates) =>
          IF Len(StoredForCall) > 0
          THEN db_ret = Some(0) /\ measurements = db_before
          ELSE db_ret = Some(FrameRows) /\ Len(measurements) = Len(db_before) + FrameRows
    /\ CountIsSumOfReturns

\* C26 (amended): with check_duplicates=True and a source_file given, an insert
\* whose source_file has stored measurements in the assay, under the condition of
\* the call or under any condition when the call gives none, inserts nothing and
\* returns 0; any other insert stores its rows; and every assay's measurement
\* count is the sum of the counts its inserts returned.
C26_DuplicatesOfAGivenSource ==
    /\ (IsSome(db_call) /\ Get(db_call).check_duplicates) =>
          LET c == Get(db_call)
              seen == \E i \in 1..Len(db_before) :
                          /\ db_before[i].assay_id = c.assay_id
                          /\ db_before[i].source_file = c.source_file
                          /\ (c.condition = None \/ db_before[i].condition = c.condition)
          IN IF IsSome(c.source_file) /\ seen
             THEN db_ret = Some(0) /\ measurements = db_before
             ELSE /\ db_ret = Some(FrameRows)
                  /\ Len(measurements) = Len(db_before) + FrameRows
                  /\ SubSeq(measurements, 1, Len(db_before)) = db_before
    /\ CountIsSumOfReturns

\* the file stored under one condition was inserted again under another condition
\* of the same assay and its rows were stored
C26_Witness ==
    /\ IsSome(db_call) /\ Get(db_call).check_duplicates /\ db_ret = Some(FrameRows)
    /\ IsSome(Get(db_call).source_file) /\ IsSome(Get(db_call).condition)
    /\ \E i \in 1..Len(db_before) :
          /\ db_before[i].assay_id = Get(db_call).assay_id
          /\ db_before[i].source_file = Get(db_call).source_file
          /\ db_before[i].condition # Get(db_call).condition

\* the report an exporter got from auto_compare and its post-hoc rows
ExReport == Get(ex_result)
ExPostHoc == IF IsSome(ExReport.post_hoc_tests) THEN Get(ExReport.post_hoc_tests) ELSE << >>

\* C28: for an engine with any alpha, what the consumers of a report show as
\* significant is what the report flags: the Excel sheet's overall and pairwise
\* 'Yes', and a starred level of the statistics table, stand exactly on the rows
\* the engine flagged significant at its alpha.
C28_ConsumersFollowTheFlag ==
    /\ (ex_pc = "sheet_written" /\ IsSome(ex_result)) =>
          /\ Get(ex_sheet).significant = Some("Yes") <=> Get(ExReport.main_test).significant
          /\ Len(Get(ex_sheet).pairwise) = Len(ExPostHoc)
          /\ \A i \in 1..Len(ExPostHoc) :
                Get(ex_sheet).pairwise[i].significant = "Yes" <=> ExPostHoc[i].significant
    /\ (ex_pc = "table_built" /\ ExPostHoc # << >>) =>
          \A i \in 1..Len(ExPostHoc) :
              Get(ex_pairwise)[i].significant # "ns (p>=0.05)" <=> ExPostHoc[i].significant

\* C29: the Excel statistics sheet marks the overall test '(non-parametric)' and
\* its pairwise rows 'Mann-Whitney U' exactly when the report took the
\* non-parametric branch, and leaves the test name and writes 'Tukey HSD' exactly
\* when it took the parametric branch.
C29_SheetNamesTheBranch ==
    (ex_pc = "sheet_written" /\ IsSome(ex_result)) =>
        LET name == Get(ExReport.main_test).test_name
        IN /\ Get(ex_sheet).overall_test =
                Some(IF ExReport.parametric = Some(FALSE) THEN name \o " (non-parametric)" ELSE name)
           /\ \A i \in 1..Len(Get(ex_sheet).pairwise) :
                Get(ex_sheet).pairwise[i].test =
                    (IF ExReport.parametric = Some(FALSE) THEN "Mann-Whitney U" ELSE "Tukey HSD")

====
